---- MODULE Spec2Model ----
(***************************************************************************)
(* Timeline synthesis and scene matching of the shorts generator.          *)
(*                                                                         *)
(* Spec     : one run of <Template>.generate() (template_quiz.py,          *)
(*            template_quiz_json_generator.py, template_tip.py): the       *)
(*            narration pool, clip loading, timing, scene selection,       *)
(*            mixing, rendering and cleanup.                               *)
(* SpecFind : VideoProcessor.find_best_timestamp applied to bounded        *)
(*            transcripts, keywords and starting points.                   *)
(* SpecPrep : a sequence of VideoProcessor.prepare_video_for_short calls   *)
(*            over a persistent temp directory (transcript cache, model    *)
(*            lifecycle, the clip loop); SpecPrepLive adds weak fairness.  *)
(* SpecMusic: ShortsEngine.add_background_music as the templates call it.  *)
(* SpecBatch: main() of main_shorts_generator.py looping over the rows of  *)
(*            the sheet; SpecBatchLive adds weak fairness.                 *)
(* SpecGemini: GeminiManager over a sequence of get_script calls.          *)
(* SpecKeywords: VideoProcessor.extract_keywords_ordered on bounded        *)
(*            scripts.                                                     *)
(* SpecSfx  : SFXManager.generate_quiz_sfx called by the quiz templates    *)
(*            and by build_audio_timeline of test_audio_only.py.           *)
(* SpecTracker: VoiceUsageTracker under register_account, log_usage and    *)
(*            find_available_account calls.                                *)
(* SpecEdge : EdgeVoiceEngine.synthesize; SpecEdgeLive adds weak fairness. *)
(*                                                                         *)
(* Times are integers in tenths of a second (3.0 s is 30).                 *)
(***************************************************************************)
EXTENDS Integers, Sequences, FiniteSets, TLC

VARIABLES
    template,               \* which generate() runs: "quiz", "quiz_json", "tip"
    delete_temp_files,      \* engine.config['DELETE_TEMP_FILES'] (default True)
    pc,                     \* position of generate()
    exc,                    \* an exception is propagating out of the with-block
    status,                 \* per task: "new", "queued", "running", "ok", "err"
    yielded,                \* futures as_completed has yielded so far
    generated_audio_paths,  \* role key -> path (NoPath while missing)
    audio_files,            \* paths appended to audio_files
    files,                  \* temp narration files on disk
    file_duration,          \* path -> duration AudioFileClip reads from it
    aud,                    \* role key -> duration of the loaded clip
    timeline,               \* t_hook, t_q, ..., t_outro, total_dur
    timeline_computed,      \* the timing step has run
    audio_list,             \* narration clips of the mix: <<[key, start, duration]>>
    outputs,                \* output artifacts written
    reordered,              \* history: a result arrived before an earlier task's
    segments,               \* find_best_timestamp: the transcript
    keyword,                \* find_best_timestamp: the keyword (None or a string)
    last_end_time,          \* find_best_timestamp: not_before
    find_result,            \* find_best_timestamp: the returned timestamp
    find_pc,                \* "idle", "call", "returned"
    model,                  \* VideoProcessor.model: "None" or "whisper"
    current_cache_file,     \* VideoProcessor.current_cache_file
    temp_dir,               \* cache path -> content of the file (NoFile if absent)
    video_path,             \* prepare_video_for_short: the source video
    total_duration,         \* prepare_video_for_short: the requested length
    safe_duration,          \* the source duration after the safety trim
    transcript,             \* what get_transcript_map returned
    keywords,               \* the keyword queue of the script
    final_clips,            \* <<[start, len, zoom]>> of the clips so far
    current_generated_duration,
    current_time_marker,
    clip_index,
    prep_pc,                \* "ready", "index", "loop", "returned", "failed"
    gtm,                    \* history of the last get_transcript_map call
    stt_runs,               \* history: video -> transcript indexes produced
    calls,                  \* history: video -> prepare calls begun
    normal_returns,         \* history: video -> prepare calls returned
    theme,                  \* config['theme'] of the generation config
    theme_name,             \* add_background_music: the theme_name argument
    music_files,            \* tracks on disk under config/music, and the legacy
    unreadable,             \* tracks AudioFileClip cannot load
    voice_track,            \* duration of CompositeAudioClip(full_audio_stack)
    mix_duration,           \* add_background_music: the total_duration argument
    chosen,                 \* random.choice(tracks)
    final_audio,            \* what add_background_music returned
    music_pc,               \* "idle", "template", "call", "returned", "raised"
    rows,                   \* the sheet: row -> is the row eligible
    sheet_status,           \* the status cell of each row
    row_i,                  \* main(): the loop index i
    processed,              \* main(): rows processed so far
    row_stage,              \* process_row: the step the current row is at
    batch_pc,               \* "idle", "loop", "row", "write", "done", "crashed"
    idx,                    \* GeminiManager.idx
    configured,             \* key genai is configured with (0: none)
    model_i,                \* get_script: index into models of the for loop
    gemini_pc,              \* "idle", "ready", "try", "returned", "failed"
    gemini_error,           \* the exception get_script ended with
    configured_log,         \* history: keys passed to genai.configure
    quota_errors,           \* history: quota errors of the current call
    other_errors,           \* history: other errors of the current call
    script_calls,           \* history: get_script calls begun
    script,                 \* extract_keywords_ordered: the script fields
    ordered,                \* extract_keywords_ordered: the returned list
    keywords_pc,            \* "idle", "call", "returned"
    caller,                 \* who calls generate_quiz_sfx
    narration,              \* role key -> duration of its narration clip
    timings,                \* generate_quiz_sfx: the timings dict
    sfx_files,              \* cue name -> state of its file in config/sfx
    sfx_name,               \* the name argument of a direct get_clip call
    sfx_layer,              \* generate_quiz_sfx: the returned cues
    sfx_pc,                 \* "idle", "call", "returned", "raised"
    quota_state,            \* VoiceUsageTracker.quota_state['accounts']
    usage_history,          \* VoiceUsageTracker.usage_history
    last_call,              \* the last find_available_account call, its result
    edge_text,              \* synthesize: the text argument
    max_retries,            \* synthesize: the max_retries argument
    attempt,                \* synthesize: the loop variable
    chars_used,             \* synthesize: len(clean_text)
    output_file,            \* size class of the file at output_path
    edge_errors,            \* history: the error of each failed attempt
    edge_slept,             \* history: seconds slept between attempts
    edge_result,            \* the tuple synthesize returned
    edge_pc                 \* "idle", "call", "try", "returned", "raised"

genVars == <<template, delete_temp_files, pc, exc, status, yielded,
             generated_audio_paths, audio_files, files, file_duration, aud,
             timeline, timeline_computed, audio_list, outputs, reordered>>
findVars == <<segments, keyword, last_end_time, find_result, find_pc>>
prepVars == <<model, current_cache_file, temp_dir, video_path, total_duration,
              safe_duration, transcript, keywords, final_clips,
              current_generated_duration, current_time_marker, clip_index,
              prep_pc, gtm, stt_runs, calls, normal_returns>>
musicVars == <<theme, theme_name, music_files, unreadable, voice_track,
               mix_duration, chosen, final_audio, music_pc>>
batchVars == <<rows, sheet_status, row_i, processed, row_stage, batch_pc>>
geminiVars == <<idx, configured, model_i, gemini_pc, gemini_error,
                configured_log, quota_errors, other_errors, script_calls>>
keywordsVars == <<script, ordered, keywords_pc>>
sfxVars == <<caller, narration, timings, sfx_files, sfx_name, sfx_layer,
             sfx_pc>>
trackerVars == <<quota_state, usage_history, last_call>>
edgeVars == <<edge_text, max_retries, attempt, chars_used, output_file,
              edge_errors,
              edge_slept, edge_result, edge_pc>>
\* the variables of the specifications of single units
unitVars == <<keywordsVars, sfxVars, trackerVars, edgeVars>>
vars == <<genVars, findVars, prepVars, musicVars, batchVars, geminiVars,
          unitVars>>
\* the variables outside the single units
systemVars == <<genVars, findVars, prepVars, musicVars, batchVars,
                geminiVars>>

\* the variables outside generate(), and outside find_best_timestamp
outsideGen == <<findVars, prepVars, musicVars, batchVars, geminiVars,
               unitVars>>
outsideFind == <<genVars, prepVars, musicVars, batchVars, geminiVars,
                unitVars>>

---------------------------------------------------------------------------
(* Bounds of the model *)

\* narration durations the synthesizer may produce: 2.0 s and 7.0 s
ShortDur == 20
LongDur == 70
Durs == {ShortDur, LongDur}

\* how many synthesizer calls of one run may fail
MaxFailures == 1

---------------------------------------------------------------------------
(* Program constants *)

MAX_WORKERS == 5
THINK_TIME == 30
OUTRO_DURATION_QUIZ == 40
OUTRO_DURATION_JSON == 70
OUTRO_DURATION_TIP == 40
CTA_MIN_JSON == 60

Templates == {"quiz", "quiz_json", "tip"}

\* audio_tasks, in dict (submission) order
QuizTasks == <<"hook", "question", "opt_a", "opt_b", "opt_c", "opt_d",
               "think", "explanation", "cta">>
TipTasks == <<"hook", "title", "content", "bonus", "cta">>
audio_tasks == IF template = "tip" THEN TipTasks ELSE QuizTasks

Range(s) == {s[i] : i \in 1..Len(s)}
Keys == Range(audio_tasks)
AllKeys == Range(QuizTasks) \cup Range(TipTasks)
Max(a, b) == IF a >= b THEN a ELSE b

vid_id == "vid"
NoPath == <<>>
\* path = f"{temp_dir}/{vid_id}_{key}.mp3"
PathOf(key) == <<vid_id, key>>
AllPaths == {PathOf(k) : k \in AllKeys}

---------------------------------------------------------------------------
(* The narration pool *)

Running == {k \in Keys : status[k] = "running"}

\* mutant: the pool starts a thread for every work item
WorkerAvailable_unbounded == TRUE

\* a worker thread is free to take the next work item
WorkerAvailable == Cardinality(Running) < MAX_WORKERS

\* position of a key in audio_tasks
IndexOf(k) == CHOOSE i \in 1..Len(audio_tasks) : audio_tasks[i] = k

\* the work queue is FIFO: the head is the earliest submitted, unstarted task
QueueHead(st, k) ==
    /\ st[k] = "queued"
    /\ \A j \in Keys : st[j] = "queued" => IndexOf(k) <= IndexOf(j)

\* mutant: a submitted task counts as completed
Completed_submitted(k) == status[k] # "new"

\* generate_single_audio has returned or raised for task k
Completed(k) == status[k] \in {"ok", "err"}

\* as_completed yields a future once it is done
IsDone(k) == Completed(k)

\* mutant: shutdown(wait=False)
PoolDrained_nowait == TRUE

\* shutdown(wait=True) of the with-block: every submitted task has run
PoolDrained == \A k \in Keys : status[k] = "new" \/ Completed(k)

\* mutant: results are stored in arrival order, under the next role in line
StoreResult_arrival(paths, k, path) ==
    LET i == CHOOSE n \in 1..Len(audio_tasks) :
                 /\ paths[audio_tasks[n]] = NoPath
                 /\ \A j \in 1..(n-1) : paths[audio_tasks[j]] # NoPath
    IN  [paths EXCEPT ![audio_tasks[i]] = path]

\* generated_audio_paths[k] = path
StoreResult(paths, k, path) == [paths EXCEPT ![k] = path]

\* the pool thread that finished a work item takes the next one of the queue
TakeNext(st) ==
    IF \E h \in Keys : QueueHead(st, h)
    THEN [st EXCEPT ![CHOOSE h \in Keys : QueueHead(st, h)] = "running"]
    ELSE st

\* executor.submit(generate_single_audio, k, t), in audio_tasks order: the
\* work item is queued, and a thread is started for it while fewer than
\* max_workers threads run
Submit ==
    /\ pc = "submit"
    /\ \E i \in 1..Len(audio_tasks) :
        /\ status[audio_tasks[i]] = "new"
        /\ \A j \in 1..(i-1) : status[audio_tasks[j]] # "new"
        /\ status' = [status EXCEPT ![audio_tasks[i]] =
                          IF WorkerAvailable THEN "running" ELSE "queued"]
        /\ pc' = IF i = Len(audio_tasks) THEN "collect" ELSE "submit"
    /\ UNCHANGED <<outsideGen, reordered, template, delete_temp_files, exc, yielded,
                   generated_audio_paths, audio_files, files, file_duration,
                   aud, timeline, timeline_computed, audio_list, outputs>>

\* generate_single_audio returns: the narration file is on disk
FinishTask(k) ==
    /\ status[k] = "running"
    /\ status' = TakeNext([status EXCEPT ![k] = "ok"])
    /\ files' = files \cup {PathOf(k)}
    /\ UNCHANGED <<outsideGen, reordered, template, delete_temp_files, pc, exc, yielded,
                   generated_audio_paths, audio_files, file_duration,
                   aud, timeline, timeline_computed, audio_list, outputs>>

\* generate_single_audio raises: the synthesizer failed
FailTask(k) ==
    /\ status[k] = "running"
    /\ Cardinality({j \in Keys : status[j] = "err"}) < MaxFailures
    /\ status' = TakeNext([status EXCEPT ![k] = "err"])
    /\ UNCHANGED <<outsideGen, reordered, template, delete_temp_files, pc, exc, yielded,
                   generated_audio_paths, audio_files, files, file_duration,
                   aud, timeline, timeline_computed, audio_list, outputs>>

\* for future in as_completed(futures): k, path = future.result();
\* generated_audio_paths[k] = path; audio_files.append(path)
Collect(k) ==
    /\ pc = "collect"
    /\ k \notin yielded
    /\ IsDone(k)
    /\ yielded' = yielded \cup {k}
    /\ reordered' = (reordered \/
                     \E j \in Keys \ yielded : IndexOf(j) < IndexOf(k))
    /\ IF status[k] = "err"
       THEN /\ exc' = TRUE
            /\ pc' = "exit_pool"
            /\ UNCHANGED <<generated_audio_paths, audio_files>>
       ELSE /\ generated_audio_paths' =
                  StoreResult(generated_audio_paths, k, PathOf(k))
            /\ audio_files' = audio_files \cup {PathOf(k)}
            /\ pc' = IF yielded' = Keys THEN "exit_pool" ELSE "collect"
            /\ exc' = FALSE
    /\ UNCHANGED <<outsideGen, template, delete_temp_files, status, files,
                   file_duration, aud, timeline, timeline_computed,
                   audio_list, outputs>>

\* leaving the with-block: ThreadPoolExecutor.__exit__ -> shutdown(wait=True)
ExitPool ==
    /\ pc = "exit_pool"
    /\ PoolDrained
    /\ pc' = IF exc THEN "failed" ELSE "load"
    /\ UNCHANGED <<outsideGen, reordered, template, delete_temp_files, exc, status, yielded,
                   generated_audio_paths, audio_files, files, file_duration,
                   aud, timeline, timeline_computed, audio_list, outputs>>

---------------------------------------------------------------------------
(* Timing *)

\* mutant: the answer waits for the think clip instead of the constant
QuizTiming_thinkclip(a) ==
    LET t_hook == 0
        t_q == t_hook + a["hook"]
        t_a == t_q + a["question"]
        t_b == t_a + a["opt_a"]
        t_c == t_b + a["opt_b"]
        t_d == t_c + a["opt_c"]
        t_think == t_d + a["opt_d"]
        t_ans == t_think + a["think"]
        t_cta == t_ans + a["explanation"]
        t_outro == t_cta + a["cta"]
        total_dur == t_outro + OUTRO_DURATION_QUIZ
    IN  [t_hook |-> t_hook, t_q |-> t_q, t_a |-> t_a, t_b |-> t_b,
         t_c |-> t_c, t_d |-> t_d, t_think |-> t_think, t_ans |-> t_ans,
         t_cta |-> t_cta, t_outro |-> t_outro, total_dur |-> total_dur]

\* template_quiz.py: t_outro = t_cta + aud_cta.duration, OUTRO_DURATION = 4.0
QuizTiming(a) ==
    LET t_hook == 0
        t_q == t_hook + a["hook"]
        t_a == t_q + a["question"]
        t_b == t_a + a["opt_a"]
        t_c == t_b + a["opt_b"]
        t_d == t_c + a["opt_c"]
        t_think == t_d + a["opt_d"]
        t_ans == t_think + THINK_TIME
        t_cta == t_ans + a["explanation"]
        t_outro == t_cta + a["cta"]
        total_dur == t_outro + OUTRO_DURATION_QUIZ
    IN  [t_hook |-> t_hook, t_q |-> t_q, t_a |-> t_a, t_b |-> t_b,
         t_c |-> t_c, t_d |-> t_d, t_think |-> t_think, t_ans |-> t_ans,
         t_cta |-> t_cta, t_outro |-> t_outro, total_dur |-> total_dur]

\* mutant: the cta slot is not padded to its minimum
QuizJsonTiming_nofloor(a) ==
    LET t_hook == 0
        t_q == t_hook + a["hook"]
        t_a == t_q + a["question"]
        t_b == t_a + a["opt_a"]
        t_c == t_b + a["opt_b"]
        t_d == t_c + a["opt_c"]
        t_think == t_d + a["opt_d"]
        t_ans == t_think + THINK_TIME
        t_cta == t_ans + a["explanation"]
        t_outro == t_cta + a["cta"]
        total_dur == t_outro + OUTRO_DURATION_JSON
    IN  [t_hook |-> t_hook, t_q |-> t_q, t_a |-> t_a, t_b |-> t_b,
         t_c |-> t_c, t_d |-> t_d, t_think |-> t_think, t_ans |-> t_ans,
         t_cta |-> t_cta, t_outro |-> t_outro, total_dur |-> total_dur]

\* template_quiz_json_generator.py: t_outro = t_cta + max(aud_cta.duration, 6),
\* OUTRO_DURATION = 7.0
QuizJsonTiming(a) ==
    LET t_hook == 0
        t_q == t_hook + a["hook"]
        t_a == t_q + a["question"]
        t_b == t_a + a["opt_a"]
        t_c == t_b + a["opt_b"]
        t_d == t_c + a["opt_c"]
        t_think == t_d + a["opt_d"]
        t_ans == t_think + THINK_TIME
        t_cta == t_ans + a["explanation"]
        t_outro == t_cta + Max(a["cta"], CTA_MIN_JSON)
        total_dur == t_outro + OUTRO_DURATION_JSON
    IN  [t_hook |-> t_hook, t_q |-> t_q, t_a |-> t_a, t_b |-> t_b,
         t_c |-> t_c, t_d |-> t_d, t_think |-> t_think, t_ans |-> t_ans,
         t_cta |-> t_cta, t_outro |-> t_outro, total_dur |-> total_dur]

\* mutant: the total forgets the cta narration
TipTiming_nocta(a) ==
    LET t_hook == 0
        t_title == t_hook + a["hook"]
        t_content == t_title + a["title"]
        t_bonus == t_content + a["content"]
        t_cta == t_bonus + a["bonus"]
        t_outro == t_cta + a["cta"]
        total_dur == t_cta + OUTRO_DURATION_TIP
    IN  [t_hook |-> t_hook, t_title |-> t_title, t_content |-> t_content,
         t_bonus |-> t_bonus, t_cta |-> t_cta, t_outro |-> t_outro,
         total_dur |-> total_dur]

\* template_tip.py: total_dur = t_cta + aud_cta.duration + OUTRO_DURATION
TipTiming(a) ==
    LET t_hook == 0
        t_title == t_hook + a["hook"]
        t_content == t_title + a["title"]
        t_bonus == t_content + a["content"]
        t_cta == t_bonus + a["bonus"]
        t_outro == t_cta + a["cta"]
        total_dur == t_cta + a["cta"] + OUTRO_DURATION_TIP
    IN  [t_hook |-> t_hook, t_title |-> t_title, t_content |-> t_content,
         t_bonus |-> t_bonus, t_cta |-> t_cta, t_outro |-> t_outro,
         total_dur |-> total_dur]

NoTimeline == [total_dur |-> 0]

\* the narration clips of the mix, each placed at its timeline start
QuizAudioList(a, t) ==
    << [key |-> "hook", start |-> t.t_hook, duration |-> a["hook"]],
       [key |-> "question", start |-> t.t_q, duration |-> a["question"]],
       [key |-> "opt_a", start |-> t.t_a, duration |-> a["opt_a"]],
       [key |-> "opt_b", start |-> t.t_b, duration |-> a["opt_b"]],
       [key |-> "opt_c", start |-> t.t_c, duration |-> a["opt_c"]],
       [key |-> "opt_d", start |-> t.t_d, duration |-> a["opt_d"]],
       [key |-> "think", start |-> t.t_think, duration |-> a["think"]],
       [key |-> "explanation", start |-> t.t_ans,
        duration |-> a["explanation"]],
       [key |-> "cta", start |-> t.t_cta, duration |-> a["cta"]] >>

TipAudioList(a, t) ==
    << [key |-> "hook", start |-> t.t_hook, duration |-> a["hook"]],
       [key |-> "title", start |-> t.t_title, duration |-> a["title"]],
       [key |-> "content", start |-> t.t_content, duration |-> a["content"]],
       [key |-> "bonus", start |-> t.t_bonus, duration |-> a["bonus"]],
       [key |-> "cta", start |-> t.t_cta, duration |-> a["cta"]] >>

---------------------------------------------------------------------------
(* generate() after the pool *)

\* aud_x = AudioFileClip(generated_audio_paths[x]) for every role
LoadClips ==
    /\ pc = "load"
    /\ \A k \in Keys : generated_audio_paths[k] \in files
    /\ \E d \in [files -> Durs] :
        /\ file_duration' =
               [p \in AllPaths |-> IF p \in files THEN d[p] ELSE 0]
        /\ aud' = [k \in Keys |-> file_duration'[generated_audio_paths[k]]]
    /\ pc' = "timing"
    /\ UNCHANGED <<outsideGen, reordered, template, delete_temp_files, exc, status, yielded,
                   generated_audio_paths, audio_files, files,
                   timeline, timeline_computed, audio_list, outputs>>

\* a clip fails to load (KeyError, missing or unreadable file)
LoadFail ==
    /\ pc = "load"
    /\ pc' = "failed"
    /\ UNCHANGED <<outsideGen, reordered, template, delete_temp_files, exc, status, yielded,
                   generated_audio_paths, audio_files, files, file_duration,
                   aud, timeline, timeline_computed, audio_list, outputs>>

\* "2. Timing": t_hook .. total_dur
ComputeTiming ==
    /\ pc = "timing"
    /\ timeline' = CASE template = "quiz" -> QuizTiming(aud)
                     [] template = "quiz_json" -> QuizJsonTiming(aud)
                     [] template = "tip" -> TipTiming(aud)
    /\ timeline_computed' = TRUE
    /\ pc' = "scene"
    /\ UNCHANGED <<outsideGen, reordered, template, delete_temp_files, exc, status, yielded,
                   generated_audio_paths, audio_files, files, file_duration,
                   aud, audio_list, outputs>>

\* video_proc.prepare_video_for_short(...); the JSON generator also writes
\* the source video
SelectScenes ==
    /\ pc = "scene"
    /\ outputs' = IF template = "quiz_json"
                  THEN outputs \cup {"source_video"} ELSE outputs
    /\ pc' = "mix"
    /\ UNCHANGED <<outsideGen, reordered, template, delete_temp_files, exc, status, yielded,
                   generated_audio_paths, audio_files, files, file_duration,
                   aud, timeline, timeline_computed, audio_list>>

SelectScenesFail ==
    /\ pc = "scene"
    /\ pc' = "failed"
    /\ UNCHANGED <<outsideGen, reordered, template, delete_temp_files, exc, status, yielded,
                   generated_audio_paths, audio_files, files, file_duration,
                   aud, timeline, timeline_computed, audio_list, outputs>>

\* sfx + audio_list + add_background_music; the JSON generator writes the
\* final audio
MixAudio ==
    /\ pc = "mix"
    /\ audio_list' = IF template = "tip" THEN TipAudioList(aud, timeline)
                     ELSE QuizAudioList(aud, timeline)
    /\ outputs' = IF template = "quiz_json"
                  THEN outputs \cup {"final_audio"} ELSE outputs
    /\ pc' = "render"
    /\ UNCHANGED <<outsideGen, reordered, template, delete_temp_files, exc, status, yielded,
                   generated_audio_paths, audio_files, files, file_duration,
                   aud, timeline, timeline_computed>>

MixAudioFail ==
    /\ pc = "mix"
    /\ pc' = "failed"
    /\ UNCHANGED <<outsideGen, reordered, template, delete_temp_files, exc, status, yielded,
                   generated_audio_paths, audio_files, files, file_duration,
                   aud, timeline, timeline_computed, audio_list, outputs>>

\* glob.glob(f'{temp_dir}/{vid_id}*')
GlobTemp == {p \in files : p[1] = vid_id}

\* for f in audio_files: if os.path.exists(f): os.remove(f)
RemoveAudioFiles(fs) == fs \ audio_files

\* the finally block of template_quiz.py / template_tip.py
FinallyCleanup(fs) ==
    IF delete_temp_files THEN RemoveAudioFiles(fs) \ GlobTemp ELSE fs

\* step 7 of template_quiz_json_generator.py
JsonCleanup(fs) ==
    IF delete_temp_files THEN RemoveAudioFiles(fs) ELSE fs

\* quiz / tip: try: render_with_effects(...) finally: cleanup
Render ==
    /\ pc = "render"
    /\ template \in {"quiz", "tip"}
    /\ outputs' = outputs \cup {"video"}
    /\ files' = FinallyCleanup(files)
    /\ pc' = "done"
    /\ UNCHANGED <<outsideGen, reordered, template, delete_temp_files, exc, status, yielded,
                   generated_audio_paths, audio_files, file_duration,
                   aud, timeline, timeline_computed, audio_list>>

RenderFail ==
    /\ pc = "render"
    /\ template \in {"quiz", "tip"}
    /\ files' = FinallyCleanup(files)
    /\ pc' = "failed"
    /\ UNCHANGED <<outsideGen, reordered, template, delete_temp_files, exc, status, yielded,
                   generated_audio_paths, audio_files, file_duration,
                   aud, timeline, timeline_computed, audio_list, outputs>>

\* quiz_json: json.dump(scenario_data, f), then the cleanup of step 7
WriteScenario ==
    /\ pc = "render"
    /\ template = "quiz_json"
    /\ outputs' = outputs \cup {"scenario_json"}
    /\ files' = JsonCleanup(files)
    /\ pc' = "done"
    /\ UNCHANGED <<outsideGen, reordered, template, delete_temp_files, exc, status, yielded,
                   generated_audio_paths, audio_files, file_duration,
                   aud, timeline, timeline_computed, audio_list>>

WriteScenarioFail ==
    /\ pc = "render"
    /\ template = "quiz_json"
    /\ pc' = "failed"
    /\ UNCHANGED <<outsideGen, reordered, template, delete_temp_files, exc, status, yielded,
                   generated_audio_paths, audio_files, files, file_duration,
                   aud, timeline, timeline_computed, audio_list, outputs>>

---------------------------------------------------------------------------
(* VideoProcessor.find_best_timestamp *)

\* bounds: segments of a transcript, and the gap between their starts (10 s)
MaxSegs == 3
SegGap == 100

\* return last_end_time + 40
FIXED_SKIP == 400
\* len(keyword) > 3
MIN_KEYWORD_LEN == 3

\* strings are sequences of characters
UpperChars == {"G", "R", "A", "V"}
LowerChar(c) == CASE c = "G" -> "g" [] c = "R" -> "r" [] c = "A" -> "a"
                  [] c = "V" -> "v" [] OTHER -> c

\* str.lower()
ToLower(str) == [i \in 1..Len(str) |-> LowerChar(str[i])]

\* needle in hay
Contains(needle, hay) ==
    \E off \in 0..(Len(hay) - Len(needle)) :
        \A j \in 1..Len(needle) : hay[off + j] = needle[j]

\* mutant: keywords of three characters are searched too
KeywordUsable_three(kw) == ~kw.is_none /\ Len(kw.text) >= MIN_KEYWORD_LEN

\* keyword and len(keyword) > 3
KeywordUsable(kw) ==
    /\ ~kw.is_none
    /\ Len(kw.text) > 0
    /\ Len(kw.text) > MIN_KEYWORD_LEN

\* the for loop over the segments, from segment i on
RECURSIVE ScanSegments(_, _, _, _)
ScanSegments(segs, kw, t, i) ==
    IF i > Len(segs)
    THEN t + FIXED_SKIP
    ELSE IF segs[i].start >= t
            /\ Contains(ToLower(kw.text), ToLower(segs[i].text))
         THEN segs[i].start
         ELSE ScanSegments(segs, kw, t, i + 1)

find_best_timestamp(segs, kw, t) ==
    IF KeywordUsable(kw)
    THEN ScanSegments(segs, kw, t, 1)
    ELSE t + FIXED_SKIP

\* the inputs: keywords, transcript texts, transcripts in time order
None == [is_none |-> TRUE, text |-> <<>>]
Str(chars) == [is_none |-> FALSE, text |-> chars]
Keywords ==
    { None, Str(<<>>), Str(<<"g", "r", "a">>), Str(<<"g", "r", "a", "v">>),
      Str(<<"G", "r", "A", "v">>), Str(<<"m", "a", "s", "s">>),
      Str(<<"g", "r", "a", "v", "y">>) }
NoSeg == <<"-">>
Texts ==
    { <<"g", "r", "a", "v">>, <<"x", "G", "R", "A", "V", "x">>,
      <<"g", "r", "a">>, <<"m", "a", "s", "s">>,
      <<"g", "r", "x", "a", "v">> }

\* the transcript holding, in time order, the segments slot gives a text to
RECURSIVE TranscriptOf(_, _)
TranscriptOf(slot, i) ==
    IF i >= MaxSegs THEN <<>>
    ELSE IF slot[i] = NoSeg THEN TranscriptOf(slot, i + 1)
         ELSE <<[start |-> i * SegGap, text |-> slot[i]]>>
              \o TranscriptOf(slot, i + 1)

NotBefore == {0, SegGap, SegGap + 50}

---------------------------------------------------------------------------
(* VideoProcessor: transcript cache, model lifecycle,                      *)
(* prepare_video_for_short                                                 *)

\* bounds: prepare calls of one run; source durations (12 s, 60 s); target
\* durations (1 s, 4 s)
MaxCalls == 2
ShortVideo == 30
LongVideo == 600
ShortTarget == 10
LongTarget == 40

\* safe_duration = vid_duration - 5.0; if safe_duration < 10: ...
SAFE_MARGIN == 50
SAFE_MIN == 100
\* random.uniform(1.5, 2.5)
MIN_CLIP_LEN == 15
MAX_CLIP_LEN == 25
\* random.uniform(1.0, safe_duration / 4)
REWIND_MIN == 10
REWIND_DIV == 4

\* the source videos, by file name, and VideoFileClip(video_path).duration
Videos == {"v1", "v2"}
VideoDuration(v) == IF v = "v1" THEN LongVideo ELSE ShortVideo
Targets == {ShortTarget, LongTarget}

SafeDuration(vid_duration) ==
    IF vid_duration - SAFE_MARGIN < SAFE_MIN
    THEN vid_duration
    ELSE vid_duration - SAFE_MARGIN

\* cache_path = os.path.join(self.temp_dir, f"{filename}.json")
CachePath(v) == IF v = "v1" THEN "temp/v1.json" ELSE "temp/v2.json"
CachePaths == {CachePath(v) : v \in Videos}
NoFile == [exists |-> FALSE, json |-> <<>>]

\* json.dump(segments, f) and json.load(f)
JsonDump(segs) == [exists |-> TRUE, json |-> segs]
JsonLoad(content) == content.json

\* what self.model.transcribe(video_path)['segments'] may be
WhisperResults ==
    { <<>>,
      <<[start |-> SegGap, text |-> <<"g", "r", "a", "v", "y">>]>> }

\* the keyword queues a script yields (none without a script)
KeywordQueues ==
    { <<>>, <<Str(<<"g", "r", "a", "v", "y">>), Str(<<"m", "a", "s", "s">>)>> }

\* mutant: the draws leave the pacing range
ClipLens_wide == {MIN_CLIP_LEN \div 2, 2 * MAX_CLIP_LEN}

\* the draws of random.uniform(1.5, 2.5): both ends and the middle
ClipLens == {MIN_CLIP_LEN, (MIN_CLIP_LEN + MAX_CLIP_LEN) \div 2, MAX_CLIP_LEN}

\* the draws of random.uniform(1.0, safe_duration / 4): both ends
RewindStarts(safe) == {REWIND_MIN, safe \div REWIND_DIV}

\* speed = 0.05 / duration, in percent
ZOOM_PERCENT == 5

\* mutant: every clip zooms in
ZoomIn_always(index) == TRUE

\* if index % 2 == 0
ZoomIn(index) == index % 2 = 0

\* apply_micro_zoom(clip, index, duration): the resize function of the clip
apply_micro_zoom(index, duration) ==
    [zoom_in |-> ZoomIn(index), duration |-> duration]

\* the value of the resize function at t, as the fraction num / den:
\* 1 + speed * t or 1.05 - speed * t
Scale(zoom, t) ==
    IF zoom.zoom_in
    THEN [num |-> 100 * zoom.duration + ZOOM_PERCENT * t,
          den |-> 100 * zoom.duration]
    ELSE [num |-> (100 + ZOOM_PERCENT) * zoom.duration - ZOOM_PERCENT * t,
          den |-> 100 * zoom.duration]

\* mutant: the cache file is never looked at
CacheExists_never(td, path) == FALSE

\* os.path.exists(cache_path)
CacheExists(td, path) == td[path].exists

\* mutant: release_resources leaves the cache file on disk
RemoveCache_kept(td, path) == td

\* os.remove(self.current_cache_file)
RemoveCache(td, path) == [td EXCEPT ![path] = NoFile]

\* mutant: release_resources leaves the model loaded
ReleasedModel_kept == model

\* release_resources: the model
ReleasedModel == "None"

\* release_resources: the temp directory
ReleasedTempDir(td, ccf) ==
    IF ccf # "None" /\ CacheExists(td, ccf) THEN RemoveCache(td, ccf) ELSE td

\* release_resources: self.current_cache_file
ReleasedCacheFile(td, ccf) ==
    IF ccf # "None" /\ CacheExists(td, ccf) THEN "None" ELSE ccf

\* mutant: the last clip is not trimmed
TrimToRemaining_untrimmed(this_clip_len, remaining) == this_clip_len

\* if remaining < this_clip_len: this_clip_len = remaining
TrimToRemaining(this_clip_len, remaining) ==
    IF remaining < this_clip_len THEN remaining ELSE this_clip_len

\* target_kw = keywords[clip_index] if clip_index < len(keywords) else None
TargetKeyword(kws, index) ==
    IF index < Len(kws) THEN kws[index + 1] ELSE None

NoGtm == [at_entry |-> FALSE, cached |-> NoFile, loads |-> 0, runs |-> 0]
TotalCalls == calls["v1"] + calls["v2"]

\* VideoProcessor.__init__ (a template builds one per generate())
NewVideoProcessor ==
    /\ prep_pc \in {"returned", "failed"}
    /\ model' = "None"
    /\ current_cache_file' = "None"
    /\ prep_pc' = "ready"
    /\ UNCHANGED <<unitVars, genVars, findVars, musicVars, batchVars, geminiVars,
                   temp_dir, video_path, total_duration, safe_duration,
                   transcript, keywords, final_clips,
                   current_generated_duration, current_time_marker,
                   clip_index, gtm, stt_runs, calls, normal_returns>>

\* prepare_video_for_short is entered and VideoFileClip opens the source
PrepCall ==
    /\ prep_pc \in {"ready", "returned", "failed"}
    /\ TotalCalls < MaxCalls
    /\ \E v \in Videos, t \in Targets, q \in KeywordQueues :
        /\ video_path' = v
        /\ total_duration' = t
        /\ keywords' = q
        /\ safe_duration' = SafeDuration(VideoDuration(v))
        /\ calls' = [calls EXCEPT ![v] = @ + 1]
    /\ transcript' = <<>>
    /\ final_clips' = <<>>
    /\ current_generated_duration' = 0
    /\ current_time_marker' = 0
    /\ clip_index' = 0
    /\ gtm' = NoGtm
    /\ prep_pc' = "index"
    /\ UNCHANGED <<unitVars, genVars, findVars, musicVars, batchVars, geminiVars,
                   model, current_cache_file, temp_dir, stt_runs,
                   normal_returns>>

\* VideoFileClip(video_path) raises
PrepOpenFail ==
    /\ prep_pc \in {"ready", "returned", "failed"}
    /\ TotalCalls < MaxCalls
    /\ \E v \in Videos, t \in Targets, q \in KeywordQueues :
        /\ video_path' = v
        /\ total_duration' = t
        /\ keywords' = q
        /\ calls' = [calls EXCEPT ![v] = @ + 1]
    /\ safe_duration' = 0
    /\ transcript' = <<>>
    /\ final_clips' = <<>>
    /\ current_generated_duration' = 0
    /\ current_time_marker' = 0
    /\ clip_index' = 0
    /\ gtm' = NoGtm
    /\ prep_pc' = "failed"
    /\ UNCHANGED <<unitVars, genVars, findVars, musicVars, batchVars, geminiVars,
                   model, current_cache_file, temp_dir, stt_runs,
                   normal_returns>>

\* get_transcript_map: the cache file exists, its content is loaded
GetTranscriptHit ==
    /\ prep_pc = "index"
    /\ CacheExists(temp_dir, CachePath(video_path))
    /\ current_cache_file' = CachePath(video_path)
    /\ transcript' = JsonLoad(temp_dir[CachePath(video_path)])
    /\ gtm' = [at_entry |-> temp_dir[CachePath(video_path)].exists,
               cached |-> temp_dir[CachePath(video_path)],
               loads |-> 0, runs |-> 0]
    /\ prep_pc' = "loop"
    /\ UNCHANGED <<unitVars, genVars, findVars, musicVars, batchVars, geminiVars,
                   model, temp_dir, video_path, total_duration,
                   safe_duration, keywords, final_clips,
                   current_generated_duration, current_time_marker,
                   clip_index, stt_runs, calls, normal_returns>>

\* get_transcript_map: no cache file; _load_model, transcribe, json.dump
GetTranscriptMiss ==
    /\ prep_pc = "index"
    /\ ~CacheExists(temp_dir, CachePath(video_path))
    /\ current_cache_file' = CachePath(video_path)
    /\ model' = "whisper"
    /\ \E result \in WhisperResults :
        /\ temp_dir' = [temp_dir EXCEPT
                            ![CachePath(video_path)] = JsonDump(result)]
        /\ transcript' = result
    /\ stt_runs' = [stt_runs EXCEPT ![video_path] = @ + 1]
    /\ gtm' = [at_entry |-> temp_dir[CachePath(video_path)].exists,
               cached |-> temp_dir[CachePath(video_path)],
               loads |-> IF model = "None" THEN 1 ELSE 0, runs |-> 1]
    /\ prep_pc' = "loop"
    /\ UNCHANGED <<unitVars, genVars, findVars, musicVars, batchVars, geminiVars,
                   video_path, total_duration, safe_duration, keywords,
                   final_clips, current_generated_duration,
                   current_time_marker, clip_index, calls, normal_returns>>

\* get_transcript_map: whisper.load_model raises
LoadModelFail ==
    /\ prep_pc = "index"
    /\ ~CacheExists(temp_dir, CachePath(video_path))
    /\ model = "None"
    /\ current_cache_file' = CachePath(video_path)
    /\ gtm' = [at_entry |-> temp_dir[CachePath(video_path)].exists,
               cached |-> temp_dir[CachePath(video_path)],
               loads |-> 0, runs |-> 0]
    /\ prep_pc' = "failed"
    /\ UNCHANGED <<unitVars, genVars, findVars, musicVars, batchVars, geminiVars,
                   model, temp_dir, video_path, total_duration,
                   safe_duration, transcript, keywords, final_clips,
                   current_generated_duration, current_time_marker,
                   clip_index, stt_runs, calls, normal_returns>>

\* get_transcript_map: self.model.transcribe raises
TranscribeFail ==
    /\ prep_pc = "index"
    /\ ~CacheExists(temp_dir, CachePath(video_path))
    /\ current_cache_file' = CachePath(video_path)
    /\ model' = "whisper"
    /\ gtm' = [at_entry |-> temp_dir[CachePath(video_path)].exists,
               cached |-> temp_dir[CachePath(video_path)],
               loads |-> IF model = "None" THEN 1 ELSE 0, runs |-> 1]
    /\ prep_pc' = "failed"
    /\ UNCHANGED <<unitVars, genVars, findVars, musicVars, batchVars, geminiVars,
                   temp_dir, video_path, total_duration, safe_duration,
                   transcript, keywords, final_clips,
                   current_generated_duration, current_time_marker,
                   clip_index, stt_runs, calls, normal_returns>>

\* start_t of the clip: find_best_timestamp, then the safety bounds check
StartOf(found, this_clip_len, rewind) ==
    IF found + this_clip_len > safe_duration THEN rewind ELSE found

\* one iteration of the while loop
ExtractClip ==
    /\ prep_pc = "loop"
    /\ current_generated_duration < total_duration
    /\ \E drawn \in ClipLens, rewind \in RewindStarts(safe_duration) :
        LET this_clip_len ==
                TrimToRemaining(drawn,
                                total_duration - current_generated_duration)
            found == find_best_timestamp(transcript,
                         TargetKeyword(keywords, clip_index),
                         current_time_marker)
            start_t == StartOf(found, this_clip_len, rewind)
        IN  /\ final_clips' =
                   Append(final_clips,
                          [start |-> start_t, len |-> this_clip_len,
                           zoom |-> apply_micro_zoom(clip_index,
                                                     this_clip_len)])
            /\ current_generated_duration' =
                   current_generated_duration + this_clip_len
            /\ current_time_marker' = start_t + this_clip_len
    /\ clip_index' = clip_index + 1
    /\ UNCHANGED <<unitVars, genVars, findVars, musicVars, batchVars, geminiVars,
                   model, current_cache_file, temp_dir, video_path,
                   total_duration, safe_duration, transcript, keywords,
                   prep_pc, gtm, stt_runs, calls, normal_returns>>

\* video.subclip, sub.resize or apply_micro_zoom raises
SubclipFail ==
    /\ prep_pc = "loop"
    /\ current_generated_duration < total_duration
    /\ prep_pc' = "failed"
    /\ UNCHANGED <<unitVars, genVars, findVars, musicVars, batchVars, geminiVars,
                   model, current_cache_file, temp_dir, video_path,
                   total_duration, safe_duration, transcript, keywords,
                   final_clips, current_generated_duration,
                   current_time_marker, clip_index, gtm, stt_runs, calls,
                   normal_returns>>

\* the loop has ended: concatenate_videoclips, release_resources, return
ReturnClips ==
    /\ prep_pc = "loop"
    /\ ~(current_generated_duration < total_duration)
    /\ final_clips # <<>>
    /\ model' = ReleasedModel
    /\ temp_dir' = ReleasedTempDir(temp_dir, current_cache_file)
    /\ current_cache_file' = ReleasedCacheFile(temp_dir, current_cache_file)
    /\ normal_returns' = [normal_returns EXCEPT ![video_path] = @ + 1]
    /\ prep_pc' = "returned"
    /\ UNCHANGED <<unitVars, genVars, findVars, musicVars, batchVars, geminiVars,
                   video_path, total_duration, safe_duration, transcript,
                   keywords, final_clips, current_generated_duration,
                   current_time_marker, clip_index, gtm, stt_runs, calls>>

\* the loop has ended: concatenate_videoclips raises
ConcatFail ==
    /\ prep_pc = "loop"
    /\ ~(current_generated_duration < total_duration)
    /\ prep_pc' = "failed"
    /\ UNCHANGED <<unitVars, genVars, findVars, musicVars, batchVars, geminiVars,
                   model, current_cache_file, temp_dir, video_path,
                   total_duration, safe_duration, transcript, keywords,
                   final_clips, current_generated_duration,
                   current_time_marker, clip_index, gtm, stt_runs, calls,
                   normal_returns>>

\* a VideoProcessor just built, over an empty temp directory
PrepReady ==
    /\ model = "None"
    /\ current_cache_file = "None"
    /\ temp_dir = [p \in CachePaths |-> NoFile]
    /\ video_path = "v1"
    /\ total_duration = 0
    /\ safe_duration = 0
    /\ transcript = <<>>
    /\ keywords = <<>>
    /\ final_clips = <<>>
    /\ current_generated_duration = 0
    /\ current_time_marker = 0
    /\ clip_index = 0
    /\ gtm = NoGtm
    /\ stt_runs = [v \in Videos |-> 0]
    /\ calls = [v \in Videos |-> 0]
    /\ normal_returns = [v \in Videos |-> 0]

PrepIdle == PrepReady /\ prep_pc = "idle"

---------------------------------------------------------------------------
(* ShortsEngine.add_background_music, as the templates call it *)

\* bounds: track durations (3 s, 90 s) and the total_duration of the mix
ShortTrack == 30
LongTrack == 900
MixTotal == 200

\* THEMES and their music_mood
ThemeNames == {"energetic_yellow", "calm_blue", "vibrant_purple",
               "fresh_green", "classic_red"}
DEFAULT_THEME == "energetic_yellow"
MusicMood(name) ==
    CASE name = "energetic_yellow" -> "energetic"
      [] name = "calm_blue" -> "calm"
      [] name = "vibrant_purple" -> "funky"
      [] name = "fresh_green" -> "calm"
      [] name = "classic_red" -> "energetic"

\* THEMES.get(theme_name, THEMES['energetic_yellow'])
get_theme(name) == IF name \in ThemeNames THEN name ELSE DEFAULT_THEME

\* the tracks the music directory may hold: one per mood directory, one in
\* the shared directory, and the legacy config/music.mp3
Track(dir, file) == [dir |-> dir, file |-> file]
Legacy == Track("legacy", "music.mp3")
AllTracks == {Track("energetic", "e1.mp3"), Track("calm", "c1.mp3"),
              Track("funky", "f1.mp3"), Track("shared", "s1.mp3"), Legacy}
NoTrack == Track("none", "none")

\* AudioFileClip(chosen).duration
TrackDuration(t) ==
    IF t.dir \in {"energetic", "shared"} THEN ShortTrack ELSE LongTrack

\* glob.glob(os.path.join(self.music_dir, mood, "*.mp3"))
MoodTracks(fs, mood) == {t \in fs : t.dir = mood}
\* glob.glob(os.path.join(self.music_dir, "*.mp3"))
SharedTracks(fs) == {t \in fs : t.dir = "shared"}

\* tracks, after the legacy fallback
Candidates(fs, mood) ==
    IF MoodTracks(fs, mood) # {} THEN MoodTracks(fs, mood)
    ELSE IF SharedTracks(fs) # {} THEN SharedTracks(fs)
    ELSE IF Legacy \in fs THEN {Legacy}
    ELSE {}

\* the theme_name the templates pass: none, so the default of the signature
CallSiteTheme(config_theme) == DEFAULT_THEME

\* the voice-only mix, returned as it came
VoiceOnly == [kind |-> "voice", track |-> NoTrack, duration |-> voice_track]

\* bgm.loop(n=int(total_duration/bgm.duration)+1) when the track is short
LoopedDuration(d, total) == IF d < total THEN d * ((total \div d) + 1) ELSE d

\* CompositeAudioClip([voice_track, bgm.subclip(0, total_duration)...])
Mixed(t, total) ==
    [kind |-> "mix", track |-> t,
     duration |-> Max(voice_track,
                      IF LoopedDuration(TrackDuration(t), total) < total
                      THEN LoopedDuration(TrackDuration(t), total)
                      ELSE total)]

\* mutant: a track that fails to load is not caught
LoadFailure_unguarded == "raised"

\* except Exception as e: ... return voice_track
LoadFailure == "returned"

\* the template reaches its add_background_music call
TemplateMix ==
    /\ music_pc = "template"
    /\ theme_name' = CallSiteTheme(theme)
    /\ music_pc' = "call"
    /\ UNCHANGED <<unitVars, genVars, findVars, prepVars, batchVars, geminiVars,
                   theme, music_files, unreadable, voice_track,
                   mix_duration, chosen, final_audio>>

\* no track anywhere: return voice_track
MusicNoTracks ==
    /\ music_pc = "call"
    /\ Candidates(music_files, MusicMood(get_theme(theme_name))) = {}
    /\ final_audio' = VoiceOnly
    /\ music_pc' = "returned"
    /\ UNCHANGED <<unitVars, genVars, findVars, prepVars, batchVars, geminiVars,
                   theme, theme_name, music_files, unreadable, voice_track,
                   mix_duration, chosen>>

\* a track is chosen, loaded, looped, cut and mixed under the voice
MusicMixed ==
    /\ music_pc = "call"
    /\ \E c \in Candidates(music_files, MusicMood(get_theme(theme_name))) :
        /\ c \notin unreadable
        /\ chosen' = c
        /\ final_audio' = Mixed(c, mix_duration)
    /\ music_pc' = "returned"
    /\ UNCHANGED <<unitVars, genVars, findVars, prepVars, batchVars, geminiVars,
                   theme, theme_name, music_files, unreadable, voice_track,
                   mix_duration>>

\* a track is chosen and AudioFileClip raises
MusicLoadFail ==
    /\ music_pc = "call"
    /\ \E c \in Candidates(music_files, MusicMood(get_theme(theme_name))) :
        /\ c \in unreadable
        /\ chosen' = c
    /\ final_audio' = VoiceOnly
    /\ music_pc' = LoadFailure
    /\ UNCHANGED <<unitVars, genVars, findVars, prepVars, batchVars, geminiVars,
                   theme, theme_name, music_files, unreadable, voice_track,
                   mix_duration>>

MusicIdle ==
    /\ theme = DEFAULT_THEME
    /\ theme_name = DEFAULT_THEME
    /\ music_files = {}
    /\ unreadable = {}
    /\ voice_track = 0
    /\ mix_duration = 0
    /\ chosen = NoTrack
    /\ final_audio = [kind |-> "none", track |-> NoTrack, duration |-> 0]
    /\ music_pc = "idle"

---------------------------------------------------------------------------
(* main() and process_row of main_shorts_generator.py *)

\* bounds: data rows of the sheet, and CONFIG['MAX_ROWS_TO_PROCESS']
NumRows == 4
MAX_ROWS_TO_PROCESS == 2

DataRows == 1..NumRows
\* CONFIG['STATUS_TO_PROCESS'], CONFIG['STATUS_SUCCESS']
Status(kind, detail) == [kind |-> kind, detail |-> detail]
Pending == Status("pending", "none")
StatusSuccess == Status("success", "none")
\* the steps of process_row that raise, in the order of the code
FailureStages == <<"PDF download failed", "PDF empty",
                   "Video download failed", "script", "generate_short">>
\* f"{CONFIG['STATUS_FAILURE_PREFIX']} {str(e)}"
StatusFailure(stage) == Status("failed", stage)

\* mutant: process_row lets the exception out
OnRowException_propagate == "crashed"

\* except Exception as e: return False, {"status": ...}
OnRowException == "write"

\* for i, row in enumerate(rows): the header, and the rows main() passes by
SkipRow ==
    /\ batch_pc = "loop"
    /\ row_i <= NumRows
    /\ \/ row_i = 0
       \/ /\ row_i > 0
          /\ processed < MAX_ROWS_TO_PROCESS
          /\ ~rows[row_i]
    /\ row_i' = row_i + 1
    /\ UNCHANGED <<unitVars, genVars, findVars, prepVars, musicVars, geminiVars,
                   rows, sheet_status, processed, row_stage, batch_pc>>

\* the loop ends: no row is left, or processed >= MAX_ROWS_TO_PROCESS
EndLoop ==
    /\ batch_pc = "loop"
    /\ \/ row_i > NumRows
       \/ row_i > 0 /\ processed >= MAX_ROWS_TO_PROCESS
    /\ batch_pc' = "done"
    /\ UNCHANGED <<unitVars, genVars, findVars, prepVars, musicVars, geminiVars,
                   rows, sheet_status, row_i, processed, row_stage>>

\* process_row(engine, gemini, row, i + 1) is called
StartRow ==
    /\ batch_pc = "loop"
    /\ row_i > 0 /\ row_i <= NumRows
    /\ processed < MAX_ROWS_TO_PROCESS
    /\ rows[row_i]
    /\ row_stage' = "try"
    /\ batch_pc' = "row"
    /\ UNCHANGED <<unitVars, genVars, findVars, prepVars, musicVars, geminiVars,
                   rows, sheet_status, row_i, processed>>

\* process_row returns True with the metadata
ProcessRowOk ==
    /\ batch_pc = "row"
    /\ row_stage' = "success"
    /\ batch_pc' = "write"
    /\ UNCHANGED <<unitVars, genVars, findVars, prepVars, musicVars, geminiVars,
                   rows, sheet_status, row_i, processed>>

\* a step of process_row raises (generate_short reports its own failure
\* and process_row raises on it)
ProcessRowFail ==
    /\ batch_pc = "row"
    /\ \E n \in 1..Len(FailureStages) : row_stage' = FailureStages[n]
    /\ batch_pc' = OnRowException
    /\ UNCHANGED <<unitVars, genVars, findVars, prepVars, musicVars, geminiVars,
                   rows, sheet_status, row_i, processed>>

\* main() writes meta_data['status'] to the status cell; processed += 1
WriteStatus ==
    /\ batch_pc = "write"
    /\ sheet_status' = [sheet_status EXCEPT ![row_i] =
                           IF row_stage = "success" THEN StatusSuccess
                           ELSE StatusFailure(row_stage)]
    /\ processed' = processed + 1
    /\ row_i' = row_i + 1
    /\ row_stage' = "none"
    /\ batch_pc' = "loop"
    /\ UNCHANGED <<unitVars, genVars, findVars, prepVars, musicVars, geminiVars, rows>>

BatchIdle ==
    /\ rows = [r \in DataRows |-> FALSE]
    /\ sheet_status = [r \in DataRows |-> Status("other", "none")]
    /\ row_i = 0
    /\ processed = 0
    /\ row_stage = "none"
    /\ batch_pc = "idle"

---------------------------------------------------------------------------
(* GeminiManager *)

\* bounds: keys in the keys file, get_script calls of one run
NumKeys == 4
MaxScriptCalls == 3

\* models = ['gemini-2.5-flash', 'gemini-2.0-flash', 'gemini-2.0-flash-exp']
NUM_MODELS == 3

\* self.keys[self.idx], keys numbered from 1
KeyAt(i) == i + 1
\* _configure: self.idx < len(self.keys)
CanConfigure(i) == i < NumKeys

ExhaustedError == "All Gemini keys exhausted"
GenerationError == "Gemini generation failed"

\* the for loop goes to the next model, or ends and get_script raises
AfterAttempt(mi) == IF mi >= NUM_MODELS THEN "failed" ELSE "try"
ErrorAfterAttempt(mi) == IF mi >= NUM_MODELS THEN GenerationError ELSE "none"

\* get_script is called
GetScript ==
    /\ gemini_pc \in {"ready", "returned", "failed"}
    /\ script_calls < MaxScriptCalls
    /\ script_calls' = script_calls + 1
    /\ model_i' = 1
    /\ quota_errors' = 0
    /\ other_errors' = 0
    /\ gemini_error' = "none"
    /\ gemini_pc' = "try"
    /\ UNCHANGED <<unitVars, genVars, findVars, prepVars, musicVars, batchVars,
                   idx, configured, configured_log>>

\* generate_content answers and the JSON parses: return
AttemptOk ==
    /\ gemini_pc = "try"
    /\ gemini_pc' = "returned"
    /\ UNCHANGED <<unitVars, genVars, findVars, prepVars, musicVars, batchVars,
                   idx, configured, model_i, gemini_error, configured_log,
                   quota_errors, other_errors, script_calls>>

\* a quota error: self.idx += 1; self._configure()
AttemptQuota ==
    /\ gemini_pc = "try"
    /\ idx' = idx + 1
    /\ quota_errors' = quota_errors + 1
    /\ IF CanConfigure(idx + 1)
       THEN /\ configured' = KeyAt(idx + 1)
            /\ configured_log' = Append(configured_log, KeyAt(idx + 1))
            /\ model_i' = model_i + 1
            /\ gemini_pc' = AfterAttempt(model_i)
            /\ gemini_error' = ErrorAfterAttempt(model_i)
       ELSE /\ gemini_pc' = "failed"
            /\ gemini_error' = ExhaustedError
            /\ UNCHANGED <<configured, configured_log, model_i>>
    /\ UNCHANGED <<unitVars, genVars, findVars, prepVars, musicVars, batchVars,
                   other_errors, script_calls>>

\* any other error (blocked, bad JSON, ...): on to the next model
AttemptOther ==
    /\ gemini_pc = "try"
    /\ other_errors' = other_errors + 1
    /\ model_i' = model_i + 1
    /\ gemini_pc' = AfterAttempt(model_i)
    /\ gemini_error' = ErrorAfterAttempt(model_i)
    /\ UNCHANGED <<unitVars, genVars, findVars, prepVars, musicVars, batchVars,
                   idx, configured, configured_log, quota_errors,
                   script_calls>>

\* GeminiManager.__init__ with a non-empty keys file
GeminiReady ==
    /\ idx = 0
    /\ configured = KeyAt(0)
    /\ configured_log = <<KeyAt(0)>>
    /\ model_i = 1
    /\ gemini_error = "none"
    /\ quota_errors = 0
    /\ other_errors = 0
    /\ script_calls = 0

GeminiIdle == GeminiReady /\ gemini_pc = "idle"

---------------------------------------------------------------------------
(* VideoProcessor.extract_keywords_ordered *)

\* bounds: words in the question_text and explanation_spoken fields
MaxQuestionWords == 2
MaxExplanationWords == 1

\* len(w) > 4
MIN_WORD_LEN == 4

\* w.strip(".,?!")
StripChars == {".", ",", "?", "!"}

stop_words ==
    {<<"t", "h", "e">>, <<"a">>, <<"a", "n">>, <<"i", "s">>,
      <<"a", "r", "e">>, <<"w", "a", "s">>, <<"w", "e", "r", "e">>,
      <<"w", "h", "a", "t">>, <<"t", "o">>, <<"i", "n">>, <<"o", "f">>,
      <<"a", "n", "d">>, <<"f", "o", "r">>, <<"o", "n">>,
      <<"w", "i", "t", "h">>, <<"a", "t">>, <<"b", "y">>,
      <<"t", "h", "i", "s">>, <<"t", "h", "a", "t">>,
      <<"t", "h", "e", "s", "e">>, <<"t", "h", "o", "s", "e">>,
      <<"w", "h", "i", "c", "h">>, <<"w", "h", "o">>,
      <<"w", "h", "e", "n">>, <<"w", "h", "e", "r", "e">>,
      <<"h", "o", "w">>, <<"w", "h", "y">> }

\* the words a script field is made of; a field is the words joined by spaces
ScriptWords ==
    { <<"t", "h", "e", "s", "e">>,
      <<"t", "h", "e", "s", "e", ".">>,
      <<"m", "a", "s", "s", ".">>,
      <<"g", "r", "a", "v", "i", "t", "y">>,
      <<"G", "r", "a", "v", "i", "t", "y", ",">>,
      <<".", ".", ".", ".", ".">>,
      <<"o", "r", "b", "i", "t">> }

WordSeqs(n) == UNION {[1..k -> ScriptWords] : k \in 0..n}

\* the scripts: fact_details and tip_content are absent, so get() gives ''
Scripts ==
    [question_text : WordSeqs(MaxQuestionWords),
     explanation_spoken : WordSeqs(MaxExplanationWords),
     fact_details : {<<>>},
     tip_content : {<<>>}]

NoScript ==
    [question_text |-> <<>>, explanation_spoken |-> <<>>,
     fact_details |-> <<>>, tip_content |-> <<>>]

\* str.lstrip(chars) and str.rstrip(chars)
RECURSIVE LStrip(_)
LStrip(str) ==
    IF str # <<>> /\ Head(str) \in StripChars THEN LStrip(Tail(str)) ELSE str

RECURSIVE RStrip(_)
RStrip(str) ==
    IF str # <<>> /\ str[Len(str)] \in StripChars
    THEN RStrip(SubSeq(str, 1, Len(str) - 1))
    ELSE str

\* str.strip(".,?!")
Strip(str) == RStrip(LStrip(str))

\* full_text.lower().split(): the fields are joined by single spaces
SplitWords(scr) ==
    LET full_text == scr.question_text \o scr.explanation_spoken
                     \o scr.fact_details \o scr.tip_content
    IN  [i \in 1..Len(full_text) |-> ToLower(full_text[i])]

\* len(w) > 4, on the word before it is stripped
LongEnough(wd) == Len(wd) > MIN_WORD_LEN

\* [w.strip(".,?!") for w in words if w.strip(".,?!") not in stop_words
\*  and len(w) > 4]
RECURSIVE CleanWords(_)
CleanWords(words) ==
    IF words = <<>> THEN <<>>
    ELSE LET wd == Head(words)
         IN  IF Strip(wd) \notin stop_words /\ LongEnough(wd)
             THEN <<Strip(wd)>> \o CleanWords(Tail(words))
             ELSE CleanWords(Tail(words))

\* for w in clean_words: if w not in seen: ordered.append(w); seen.add(w)
RECURSIVE Dedup(_, _)
Dedup(clean_words, seen) ==
    IF clean_words = <<>> THEN <<>>
    ELSE LET wd == Head(clean_words)
         IN  IF wd \notin seen
             THEN <<wd>> \o Dedup(Tail(clean_words), seen \cup {wd})
             ELSE Dedup(Tail(clean_words), seen)

extract_keywords_ordered(scr) == Dedup(CleanWords(SplitWords(scr)), {})

KeywordsIdle ==
    /\ script = NoScript
    /\ ordered = <<>>
    /\ keywords_pc = "idle"

\* keywords = self.extract_keywords_ordered(script)
ExtractKeywords ==
    /\ keywords_pc = "call"
    /\ ordered' = extract_keywords_ordered(script)
    /\ keywords_pc' = "returned"
    /\ UNCHANGED <<systemVars, sfxVars, trackerVars, edgeVars, script>>

---------------------------------------------------------------------------
(* SFXManager.get_clip and generate_quiz_sfx, and their callers *)

\* bound: files of config/sfx that are missing or unreadable at once
MaxBadFiles == 2

\* cue offsets are in hundredths of a second, timeline values in tenths
Hundredths(t) == 10 * t
\* timings['q'] - 0.2
WHOOSH_LEAD == 20
\* for i in range(12): offset = i * 0.25
NUM_TICKS == 12
TICK_STEP == 25
\* current_time += 3.0  # Wait for timer
HARNESS_WAIT == 30

\* the keys of self.assets that generate_quiz_sfx asks for
QuizCueNames == {"whoosh", "tick", "success", "pop", "flip", "swish_low"}
\* the keys of self.assets; the pools of the fact and tip layers are left out
AssetNames == QuizCueNames \cup {"marker"}
\* the names a caller can pass to get_clip: "laser" has no entry
ClipNames == AssetNames \cup {"laser"}

\* the file of an entry: it loads, is missing, or exists and fails to load;
\* "wav_only": pop_soft.mp3 is missing and pop_soft.wav exists and loads
FileStatesOf(name) ==
    IF name = "pop" THEN {"ok", "missing", "unreadable", "wav_only"}
    ELSE {"ok", "missing", "unreadable"}

Disks ==
    { f \in [AssetNames -> {"ok", "missing", "unreadable", "wav_only"}] :
        /\ \A n \in AssetNames : f[n] \in FileStatesOf(n)
        /\ Cardinality({n \in AssetNames : f[n] # "ok"}) <= MaxBadFiles }

\* if not os.path.exists(path):
\*     if name == 'pop': path = path.replace('.mp3', '.wav')
\*     if not os.path.exists(path): return None
PathExists(name) ==
    \/ sfx_files[name] \in {"ok", "unreadable"}
    \/ name = "pop" /\ sfx_files[name] = "wav_only"

\* AudioFileClip(path) raises
LoadRaises(name) == sfx_files[name] = "unreadable"

\* mutant: a load error leaves get_clip
LoadErrorCaught_not == FALSE

\* try: clip = AudioFileClip(path) ... except Exception as e: return None
LoadErrorCaught == TRUE

\* the mixing rules, in percent of the requested volume
MixRule(name) ==
    CASE name = "whoosh" -> 15
      [] name = "swish_low" -> 25
      [] name = "flip" -> 15
      [] name = "marker" -> 20
      [] OTHER -> 100

NoClip == [present |-> FALSE, name |-> "none", start |-> 0, volume |-> 0]

\* get_clip(name, start_time, volume): start_time in hundredths of a second,
\* volume in thousandths
get_clip(name, start_time, volume) ==
    IF name \notin AssetNames THEN NoClip
    ELSE IF ~PathExists(name) THEN NoClip
    ELSE IF LoadRaises(name) THEN NoClip
    ELSE [present |-> TRUE, name |-> name, start |-> start_time,
          volume |-> (volume * MixRule(name)) \div 100]

\* get_clip raises for this name
GetClipRaises(name) ==
    /\ name \in AssetNames
    /\ PathExists(name)
    /\ LoadRaises(name)
    /\ ~LoadErrorCaught

\* the keys of a timings dict
SfxKeys == {"q", "a", "b", "c", "d", "think", "ans", "cta", "outro"}
Absent == [present |-> FALSE, t |-> 0]
At(t) == [present |-> TRUE, t |-> t]
NoTimings == [k \in SfxKeys |-> Absent]

\* mutant: the chime is handed the cta start
SfxTimings_late(t) ==
    [k \in SfxKeys |->
        CASE k = "q" -> At(t.t_q)
          [] k = "a" -> At(t.t_a)
          [] k = "b" -> At(t.t_b)
          [] k = "c" -> At(t.t_c)
          [] k = "d" -> At(t.t_d)
          [] k = "think" -> At(t.t_think)
          [] k = "ans" -> At(t.t_cta)
          [] k = "cta" -> At(t.t_cta)
          [] OTHER -> At(t.t_outro)]

\* sfx_timings = {'q': t_q, 'a': t_a, ..., 'cta': t_cta, 'outro': t_outro}
SfxTimings(t) ==
    [k \in SfxKeys |->
        CASE k = "q" -> At(t.t_q)
          [] k = "a" -> At(t.t_a)
          [] k = "b" -> At(t.t_b)
          [] k = "c" -> At(t.t_c)
          [] k = "d" -> At(t.t_d)
          [] k = "think" -> At(t.t_think)
          [] k = "ans" -> At(t.t_ans)
          [] k = "cta" -> At(t.t_cta)
          [] OTHER -> At(t.t_outro)]

\* build_audio_timeline, quiz branch: timestamps[...] = current_time before
\* each add_voice, current_time += dur after it
HarnessTimestamps(a) ==
    LET q == a["hook"]
        t_a == q + a["question"]
        t_b == t_a + a["opt_a"]
        t_c == t_b + a["opt_b"]
        t_d == t_c + a["opt_c"]
        think == t_d + a["opt_d"]
        ans == think + a["think"] + HARNESS_WAIT
    IN  [k \in SfxKeys |->
            CASE k = "q" -> At(q)
              [] k = "a" -> At(t_a)
              [] k = "b" -> At(t_b)
              [] k = "c" -> At(t_c)
              [] k = "d" -> At(t_d)
              [] k = "think" -> At(think)
              [] k = "ans" -> At(ans)
              [] OTHER -> Absent]

\* offset = i * 0.25
TickOffset(i) == i * TICK_STEP

\* if key in timings: clp = self.get_clip(name, timings[key] + offset, volume)
Cue(tm, key, name, offset, volume) ==
    IF tm[key].present
    THEN get_clip(name, Hundredths(tm[key].t) + offset, volume)
    ELSE NoClip

\* the get_clip calls of generate_quiz_sfx, in order
QuizCues(tm) ==
    <<Cue(tm, "q", "whoosh", 0 - WHOOSH_LEAD, 500)>>
    \o [i \in 1..4 |-> Cue(tm, <<"a", "b", "c", "d">>[i], "pop", 0, 150)]
    \o [i \in 1..NUM_TICKS |->
           Cue(tm, "think", "tick", TickOffset(i - 1), 600)]
    \o <<Cue(tm, "ans", "success", 0, 700),
         Cue(tm, "cta", "flip", 0, 1000),
         Cue(tm, "outro", "swish_low", 0, 600)>>

\* if clp: sfx_layer.append(clp)
generate_quiz_sfx(tm) == SelectSeq(QuizCues(tm), LAMBDA c : c.present)

\* the cue names generate_quiz_sfx asks get_clip for
KeysOf(name) ==
    CASE name = "whoosh" -> {"q"}
      [] name = "pop" -> {"a", "b", "c", "d"}
      [] name = "tick" -> {"think"}
      [] name = "success" -> {"ans"}
      [] name = "flip" -> {"cta"}
      [] name = "swish_low" -> {"outro"}
      [] OTHER -> {}
NamesAsked(tm) ==
    {n \in QuizCueNames : \E k \in KeysOf(n) : tm[k].present}

\* the narration durations of a quiz script
SfxRoles == Range(QuizTasks)
NoNarration == [k \in SfxRoles |-> 0]
Narrations ==
    { [k \in SfxRoles |->
          CASE k = "think" -> th [] k = "cta" -> c [] OTHER -> d] :
      d \in Durs, th \in Durs, c \in Durs }

Callers == {"quiz", "quiz_json", "harness", "get_clip"}

SfxIdle ==
    /\ caller = "quiz"
    /\ narration = NoNarration
    /\ timings = NoTimings
    /\ sfx_files = [n \in AssetNames |-> "ok"]
    /\ sfx_name = "none"
    /\ sfx_layer = <<>>
    /\ sfx_pc = "idle"

\* template_quiz.py: sfx_timings = {...} from the timing block
QuizSfxTimings ==
    /\ sfx_pc = "start"
    /\ caller = "quiz"
    /\ timings' = SfxTimings(QuizTiming(narration))
    /\ sfx_pc' = "call"
    /\ UNCHANGED <<systemVars, keywordsVars, trackerVars, edgeVars, caller,
                   narration, sfx_files, sfx_name, sfx_layer>>

\* template_quiz_json_generator.py: sfx_timings = {...}
QuizJsonSfxTimings ==
    /\ sfx_pc = "start"
    /\ caller = "quiz_json"
    /\ timings' = SfxTimings(QuizJsonTiming(narration))
    /\ sfx_pc' = "call"
    /\ UNCHANGED <<systemVars, keywordsVars, trackerVars, edgeVars, caller,
                   narration, sfx_files, sfx_name, sfx_layer>>

\* test_audio_only.py: build_audio_timeline up to its generate_quiz_sfx call
BuildAudioTimeline ==
    /\ sfx_pc = "start"
    /\ caller = "harness"
    /\ timings' = HarnessTimestamps(narration)
    /\ sfx_pc' = "call"
    /\ UNCHANGED <<systemVars, keywordsVars, trackerVars, edgeVars, caller,
                   narration, sfx_files, sfx_name, sfx_layer>>

\* sfx_clips = sfx_mgr.generate_quiz_sfx(sfx_timings)
GenerateQuizSfx ==
    /\ sfx_pc = "call"
    /\ IF \E n \in NamesAsked(timings) : GetClipRaises(n)
       THEN /\ sfx_pc' = "raised"
            /\ UNCHANGED sfx_layer
       ELSE /\ sfx_layer' = generate_quiz_sfx(timings)
            /\ sfx_pc' = "returned"
    /\ UNCHANGED <<systemVars, keywordsVars, trackerVars, edgeVars, caller,
                   narration, timings, sfx_files, sfx_name>>

\* a direct call clp = sfx_mgr.get_clip(name, start_time)
GetClipCall ==
    /\ sfx_pc = "start"
    /\ caller = "get_clip"
    /\ IF GetClipRaises(sfx_name)
       THEN /\ sfx_pc' = "raised"
            /\ UNCHANGED sfx_layer
       ELSE /\ sfx_layer' = SelectSeq(<<get_clip(sfx_name, 0, 1000)>>,
                                      LAMBDA c : c.present)
            /\ sfx_pc' = "returned"
    /\ UNCHANGED <<systemVars, keywordsVars, trackerVars, edgeVars, caller,
                   narration, timings, sfx_files, sfx_name>>

---------------------------------------------------------------------------
(* VoiceUsageTracker *)

\* bounds: the monthly quota in characters (scaled), the characters of one
\* synthesis, and the calls of log_usage
MONTHLY_QUOTA == 4
CharsShort == 1
CharsLong == 3
MaxLogs == 3

Accounts == {"google_account1", "google_account2"}
CharCounts == {CharsShort, CharsLong}
RequiredChars == {CharsLong, MONTHLY_QUOTA}
AccountLists ==
    { <<>>, <<"google_account2">>,
      <<"google_account1", "google_account2">>,
      <<"google_account2", "google_account1">> }

\* account_name not in self.quota_state['accounts']
Unregistered ==
    [registered |-> FALSE, used_chars |-> 0, quota_limit |-> 0,
     available |-> 0]

\* {'used_chars': 0, 'quota_limit': MONTHLY_QUOTA, 'available': MONTHLY_QUOTA}
Fresh ==
    [registered |-> TRUE, used_chars |-> 0, quota_limit |-> MONTHLY_QUOTA,
     available |-> MONTHLY_QUOTA]

\* register_account(account_name) on the accounts dict qs
register_account(qs, account_name) ==
    IF ~qs[account_name].registered
    THEN [qs EXCEPT ![account_name] = Fresh]
    ELSE qs

\* mutant: the available count is not refreshed
Available_stale(acc, used_chars) == acc.available

\* acc['available'] = acc['quota_limit'] - acc['used_chars']
Available(acc, used_chars) == acc.quota_limit - used_chars

\* the provider == 'google' branch of log_usage
Charge(qs, account_name, n_chars) ==
    LET reg == register_account(qs, account_name)
        acc == reg[account_name]
        used == acc.used_chars + n_chars
    IN  [reg EXCEPT ![account_name] =
            [acc EXCEPT !.used_chars = used,
                        !.available = Available(acc, used)]]

NoCall == [op |-> "none", required_chars |-> 0, account_names |-> <<>>,
           result |-> "none"]

\* for acc_name in account_names: status = self.get_account_status(acc_name);
\* if status['available'] >= required_chars: return acc_name
\* return None
RECURSIVE find_available_account(_, _, _)
find_available_account(qs, required_chars, account_names) ==
    IF account_names = <<>> THEN [result |-> "None", accounts |-> qs]
    ELSE LET acc_name == Head(account_names)
             reg == register_account(qs, acc_name)
         IN  IF reg[acc_name].available >= required_chars
             THEN [result |-> acc_name, accounts |-> reg]
             ELSE find_available_account(reg, required_chars,
                                         Tail(account_names))

\* VoiceUsageTracker(data_dir) on a data directory without state files
TrackerIdle ==
    /\ quota_state = [a \in Accounts |-> Unregistered]
    /\ usage_history = <<>>
    /\ last_call = NoCall

\* tracker.register_account(account_name)
RegisterAccount ==
    /\ \E account_name \in Accounts :
           quota_state' = register_account(quota_state, account_name)
    /\ last_call' = NoCall
    /\ UNCHANGED <<systemVars, keywordsVars, sfxVars, edgeVars,
                   usage_history>>

\* tracker.log_usage(account_name, 'google', n_chars, voice_used)
LogUsageGoogle ==
    /\ Len(usage_history) < MaxLogs
    /\ \E account_name \in Accounts, n_chars \in CharCounts :
        /\ quota_state' = Charge(quota_state, account_name, n_chars)
        /\ usage_history' =
               Append(usage_history,
                      [account |-> account_name, provider |-> "google",
                       chars |-> n_chars])
    /\ last_call' = NoCall
    /\ UNCHANGED <<systemVars, keywordsVars, sfxVars, edgeVars>>

\* tracker.log_usage(account_name, provider, ...) with provider != 'google'
LogUsageOther ==
    /\ Len(usage_history) < MaxLogs
    /\ \E account_name \in Accounts \cup {"edge"},
          n_chars \in CharCounts :
           usage_history' =
               Append(usage_history,
                      [account |-> account_name, provider |-> "edge",
                       chars |-> n_chars])
    /\ last_call' = NoCall
    /\ UNCHANGED <<systemVars, keywordsVars, sfxVars, edgeVars,
                   quota_state>>

\* tracker.find_available_account(required_chars, account_names)
FindAvailableAccount ==
    /\ \E required_chars \in RequiredChars, account_names \in AccountLists :
        LET found == find_available_account(quota_state, required_chars,
                                            account_names)
        IN  /\ quota_state' = found.accounts
            /\ last_call' = [op |-> "find",
                             required_chars |-> required_chars,
                             account_names |-> account_names,
                             result |-> found.result]
    /\ UNCHANGED <<systemVars, keywordsVars, sfxVars, edgeVars,
                   usage_history>>

---------------------------------------------------------------------------
(* EdgeVoiceEngine.synthesize *)

\* bound: the max_retries argument
MaxRetries == 3

\* wait_time = 5 + (attempt * 3), in seconds
BASE_WAIT == 5
WAIT_STEP == 3
\* len(clean_text) < 2
MIN_TEXT_LEN == 2

\* re.sub of the Markdown characters by ''; the texts have no backquote
MarkdownChars == {"*", "_", "#", "~"}
RemoveMarkdown(str) == SelectSeq(str, LAMBDA c : c \notin MarkdownChars)

\* text.replace('&', 'and').replace('+', 'plus').replace('%', ' percent')
RECURSIVE ReplaceIssues(_)
ReplaceIssues(str) ==
    IF str = <<>> THEN <<>>
    ELSE (CASE Head(str) = "&" -> <<"a", "n", "d">>
            [] Head(str) = "+" -> <<"p", "l", "u", "s">>
            [] Head(str) = "%" -> <<" ", "p", "e", "r", "c", "e", "n", "t">>
            [] OTHER -> <<Head(str)>>)
         \o ReplaceIssues(Tail(str))

\* re.sub(r'\s+', ' ', text)
RECURSIVE CollapseWhitespace(_)
CollapseWhitespace(str) ==
    IF Len(str) < 2 THEN str
    ELSE IF str[1] = " " /\ str[2] = " " THEN CollapseWhitespace(Tail(str))
    ELSE <<Head(str)>> \o CollapseWhitespace(Tail(str))

\* str.strip()
RECURSIVE StripSpaces(_)
StripSpaces(str) ==
    IF str # <<>> /\ Head(str) = " " THEN StripSpaces(Tail(str))
    ELSE IF str # <<>> /\ str[Len(str)] = " "
    THEN StripSpaces(SubSeq(str, 1, Len(str) - 1))
    ELSE str

\* clean_text(text), on texts without URLs and brackets
clean_text(str) ==
    IF str = <<>> THEN <<>>
    ELSE StripSpaces(CollapseWhitespace(ReplaceIssues(RemoveMarkdown(str))))

\* clean_text = "Check the description."
FallbackText ==
    <<"C", "h", "e", "c", "k", " ", "t", "h", "e", " ", "d",
      "e", "s", "c", "r", "i", "p", "t", "i", "o", "n", ".">>

\* if not clean_text or len(clean_text) < 2: clean_text = fallback
SpokenText(str) ==
    IF clean_text(str) = <<>> \/ Len(clean_text(str)) < MIN_TEXT_LEN
    THEN FallbackText
    ELSE clean_text(str)

EdgeTexts ==
    { <<>>, <<"*">>, <<"a">>, <<"H", "i">>, <<"*", "H", "i", "*">>,
      <<" ", "a", " ", " ", "&", " ">> }

\* the messages of the errors an attempt can end in, as sequences of words
RetryKeywords ==
    {"429", "Connection", "Handshake", "NoAudioReceived", "received"}
LibraryErrors ==
    { <<"Invalid", "response", "status", "429">>,
      <<"Connection", "timeout">>,
      <<"Handshake", "failed">>,
      <<"NoAudioReceived">>,
      <<"No", "audio", "was", "received">>,
      <<"Invalid", "voice">> }
\* raise Exception("Generated audio file is 0 bytes")
ZeroBytes == <<"Generated", "audio", "file", "is", "0", "bytes">>
\* os.path.getsize(output_path) on a file that is not there
NoSuchFile == <<"No", "such", "file", "or", "directory">>
NoError == <<>>

\* the file at output_path
FileSizes == {"absent", "empty", "nonempty"}

\* what edge_tts does in one attempt: communicate.save() raises message, or
\* returns (message = NoError); file is what it leaves at output_path
Outcomes ==
    [message : LibraryErrors \cup {NoError}, file : FileSizes]

\* the exception that leaves asyncio.run(self._generate_audio_async(...))
AttemptError(o) ==
    IF o.message # NoError THEN o.message
    ELSE IF o.file = "absent" THEN NoSuchFile
    ELSE IF o.file = "empty" THEN ZeroBytes
    ELSE NoError

\* mutant: every error is retried
Retryable_always(error_msg) == TRUE

\* any(keyword in error_msg for keyword in [...])
Retryable(error_msg) == \E kw \in RetryKeywords : kw \in Range(error_msg)

\* the returned tuple
Result(success, chars, kind, error_msg) ==
    [success |-> success, chars_used |-> chars, kind |-> kind,
     error_msg |-> error_msg]
NoResult == Result(FALSE, 0, "none", NoError)

EdgeIdle ==
    /\ edge_text = <<>>
    /\ max_retries = 0
    /\ attempt = 0
    /\ chars_used = 0
    /\ output_file = "absent"
    /\ edge_errors = <<>>
    /\ edge_slept = 0
    /\ edge_result = NoResult
    /\ edge_pc = "idle"

\* synthesize(text, output_path, voice_config, max_retries) up to the loop
Synthesize ==
    /\ edge_pc = "call"
    /\ chars_used' = Len(SpokenText(edge_text))
    /\ attempt' = 0
    /\ edge_pc' = "try"
    /\ UNCHANGED <<systemVars, keywordsVars, sfxVars, trackerVars,
                   edge_text, max_retries, output_file, edge_errors,
                   edge_slept, edge_result>>

\* the attempt leaves a non-empty file: return True, chars_used, None
AttemptSucceeds ==
    /\ edge_pc = "try"
    /\ attempt < max_retries
    /\ \E o \in Outcomes :
        /\ AttemptError(o) = NoError
        /\ output_file' = o.file
    /\ edge_result' = Result(TRUE, chars_used, "None", NoError)
    /\ edge_pc' = "returned"
    /\ UNCHANGED <<systemVars, keywordsVars, sfxVars, trackerVars,
                   edge_text, max_retries, attempt, chars_used, edge_errors,
                   edge_slept>>

\* except Exception as e, retryable: time.sleep(wait_time), next attempt
AttemptRetried ==
    /\ edge_pc = "try"
    /\ attempt < max_retries
    /\ \E o \in Outcomes :
        /\ AttemptError(o) # NoError
        /\ Retryable(AttemptError(o))
        /\ output_file' = o.file
        /\ edge_errors' = Append(edge_errors, AttemptError(o))
    /\ edge_slept' = edge_slept + BASE_WAIT + attempt * WAIT_STEP
    /\ attempt' = attempt + 1
    /\ UNCHANGED <<systemVars, keywordsVars, sfxVars, trackerVars,
                   edge_text, max_retries, chars_used, edge_result, edge_pc>>

\* except Exception as e, not retryable: return False, chars_used, "Edge TTS
\* Error: ..."
AttemptFails ==
    /\ edge_pc = "try"
    /\ attempt < max_retries
    /\ \E o \in Outcomes :
        /\ AttemptError(o) # NoError
        /\ ~Retryable(AttemptError(o))
        /\ output_file' = o.file
        /\ edge_errors' = Append(edge_errors, AttemptError(o))
        /\ edge_result' = Result(FALSE, chars_used, "error", AttemptError(o))
    /\ edge_pc' = "returned"
    /\ UNCHANGED <<systemVars, keywordsVars, sfxVars, trackerVars,
                   edge_text, max_retries, attempt, chars_used, edge_slept>>

\* the loop is over: return False, chars_used, "Edge TTS failed after ..."
RetriesExhausted ==
    /\ edge_pc = "try"
    /\ attempt >= max_retries
    /\ edge_result' = Result(FALSE, chars_used, "exhausted", NoError)
    /\ edge_pc' = "returned"
    /\ UNCHANGED <<systemVars, keywordsVars, sfxVars, trackerVars,
                   edge_text, max_retries, attempt, chars_used, output_file,
                   edge_errors, edge_slept>>

\* the units at rest
UnitIdle == KeywordsIdle /\ SfxIdle /\ TrackerIdle /\ EdgeIdle

---------------------------------------------------------------------------
(* Idle states and the specification of find_best_timestamp *)

FindIdle ==
    /\ segments = <<>>
    /\ keyword = None
    /\ last_end_time = 0
    /\ find_result = 0
    /\ find_pc = "idle"

GenIdle ==
    /\ template = "quiz"
    /\ delete_temp_files = TRUE
    /\ pc = "idle"
    /\ exc = FALSE
    /\ status = [k \in Range(QuizTasks) |-> "new"]
    /\ yielded = {}
    /\ generated_audio_paths = [k \in Range(QuizTasks) |-> NoPath]
    /\ audio_files = {}
    /\ files = {}
    /\ file_duration = [p \in AllPaths |-> 0]
    /\ aud = [k \in Range(QuizTasks) |-> 0]
    /\ timeline = NoTimeline
    /\ timeline_computed = FALSE
    /\ audio_list = <<>>
    /\ outputs = {}
    /\ reordered = FALSE

InitFind ==
    /\ GenIdle /\ PrepIdle /\ MusicIdle /\ BatchIdle /\ GeminiIdle
    /\ UnitIdle
    /\ \E slot \in [0..(MaxSegs - 1) -> Texts \cup {NoSeg}] :
           segments = TranscriptOf(slot, 0)
    /\ keyword \in Keywords
    /\ last_end_time \in NotBefore
    /\ find_result = 0
    /\ find_pc = "call"

\* start_t = self.find_best_timestamp(transcript, target_kw, marker)
FindCall ==
    /\ find_pc = "call"
    /\ find_result' = find_best_timestamp(segments, keyword, last_end_time)
    /\ find_pc' = "returned"
    /\ UNCHANGED <<outsideFind, segments, keyword, last_end_time>>

NextFind == FindCall
SpecFind == InitFind /\ [][NextFind]_vars

---------------------------------------------------------------------------
(* Specification of generate() *)

InitGen ==
    /\ template \in Templates
    /\ delete_temp_files = TRUE
    /\ pc = "submit"
    /\ exc = FALSE
    /\ status = [k \in Keys |-> "new"]
    /\ yielded = {}
    /\ generated_audio_paths = [k \in Keys |-> NoPath]
    /\ audio_files = {}
    /\ files = {}
    /\ file_duration = [p \in AllPaths |-> 0]
    /\ aud = [k \in Keys |-> 0]
    /\ timeline = NoTimeline
    /\ timeline_computed = FALSE
    /\ audio_list = <<>>
    /\ outputs = {}
    /\ reordered = FALSE

Next ==
    \/ Submit
    \/ \E k \in Keys : FinishTask(k)
    \/ \E k \in Keys : FailTask(k)
    \/ \E k \in Keys : Collect(k)
    \/ ExitPool
    \/ LoadClips
    \/ LoadFail
    \/ ComputeTiming
    \/ SelectScenes
    \/ SelectScenesFail
    \/ MixAudio
    \/ MixAudioFail
    \/ Render
    \/ RenderFail
    \/ WriteScenario
    \/ WriteScenarioFail

Init ==
    /\ InitGen
    /\ FindIdle /\ PrepIdle /\ MusicIdle /\ BatchIdle /\ GeminiIdle
    /\ UnitIdle
Spec == Init /\ [][Next]_vars

---------------------------------------------------------------------------
(* Specification of prepare_video_for_short *)

InitPrep ==
    /\ GenIdle /\ FindIdle /\ MusicIdle /\ BatchIdle /\ GeminiIdle
    /\ UnitIdle
    /\ PrepReady
    /\ prep_pc = "ready"

NextPrep ==
    \/ NewVideoProcessor
    \/ PrepCall
    \/ PrepOpenFail
    \/ GetTranscriptHit
    \/ GetTranscriptMiss
    \/ LoadModelFail
    \/ TranscribeFail
    \/ ExtractClip
    \/ SubclipFail
    \/ ReturnClips
    \/ ConcatFail

SpecPrep == InitPrep /\ [][NextPrep]_vars
\* the interpreter keeps running the call it is in
SpecPrepLive == SpecPrep /\ WF_vars(NextPrep)

---------------------------------------------------------------------------
(* Specification of add_background_music *)

InitMusic ==
    /\ GenIdle /\ FindIdle /\ PrepIdle /\ BatchIdle /\ GeminiIdle
    /\ UnitIdle
    /\ theme \in ThemeNames
    /\ theme_name = DEFAULT_THEME
    /\ music_files \in SUBSET AllTracks
    /\ unreadable \in SUBSET music_files
    /\ mix_duration = MixTotal
    /\ voice_track \in {MixTotal - OUTRO_DURATION_QUIZ, MixTotal}
    /\ chosen = NoTrack
    /\ final_audio = [kind |-> "none", track |-> NoTrack, duration |-> 0]
    /\ music_pc = "template"

NextMusic ==
    \/ TemplateMix
    \/ MusicNoTracks
    \/ MusicMixed
    \/ MusicLoadFail

SpecMusic == InitMusic /\ [][NextMusic]_vars

---------------------------------------------------------------------------
(* Specification of the batch driver *)

InitBatch ==
    /\ GenIdle /\ FindIdle /\ PrepIdle /\ MusicIdle /\ GeminiIdle
    /\ UnitIdle
    /\ rows \in [DataRows -> BOOLEAN]
    /\ sheet_status = [r \in DataRows |->
                          IF rows[r] THEN Pending ELSE Status("other", "none")]
    /\ row_i = 0
    /\ processed = 0
    /\ row_stage = "none"
    /\ batch_pc = "loop"

NextBatch ==
    \/ SkipRow
    \/ EndLoop
    \/ StartRow
    \/ ProcessRowOk
    \/ ProcessRowFail
    \/ WriteStatus

SpecBatch == InitBatch /\ [][NextBatch]_vars
\* main() keeps running until the loop ends
SpecBatchLive == SpecBatch /\ WF_vars(NextBatch)

---------------------------------------------------------------------------
(* Specification of GeminiManager *)

InitGemini ==
    /\ GenIdle /\ FindIdle /\ PrepIdle /\ MusicIdle /\ BatchIdle
    /\ UnitIdle
    /\ GeminiReady
    /\ gemini_pc = "ready"

NextGemini ==
    \/ GetScript
    \/ AttemptOk
    \/ AttemptQuota
    \/ AttemptOther

SpecGemini == InitGemini /\ [][NextGemini]_vars

---------------------------------------------------------------------------
(* Specifications of the single units *)

SystemIdle ==
    GenIdle /\ FindIdle /\ PrepIdle /\ MusicIdle /\ BatchIdle /\ GeminiIdle

\* extract_keywords_ordered on every bounded script
InitKeywords ==
    /\ SystemIdle /\ SfxIdle /\ TrackerIdle /\ EdgeIdle
    /\ script \in Scripts
    /\ ordered = <<>>
    /\ keywords_pc = "call"

NextKeywords == ExtractKeywords
SpecKeywords == InitKeywords /\ [][NextKeywords]_vars

\* one caller of the sound-effect manager, over one state of config/sfx
InitSfx ==
    /\ SystemIdle /\ KeywordsIdle /\ TrackerIdle /\ EdgeIdle
    /\ caller \in Callers
    /\ IF caller = "get_clip"
       THEN narration = NoNarration /\ sfx_name \in ClipNames
       ELSE narration \in Narrations /\ sfx_name = "none"
    /\ timings = NoTimings
    /\ sfx_files \in Disks
    /\ sfx_layer = <<>>
    /\ sfx_pc = "start"

NextSfx ==
    \/ QuizSfxTimings
    \/ QuizJsonSfxTimings
    \/ BuildAudioTimeline
    \/ GenerateQuizSfx
    \/ GetClipCall

SpecSfx == InitSfx /\ [][NextSfx]_vars

\* a new tracker under any sequence of calls
InitTracker ==
    /\ SystemIdle /\ KeywordsIdle /\ SfxIdle /\ EdgeIdle
    /\ TrackerIdle

NextTracker ==
    \/ RegisterAccount
    \/ LogUsageGoogle
    \/ LogUsageOther
    \/ FindAvailableAccount

SpecTracker == InitTracker /\ [][NextTracker]_vars

\* one synthesize call
InitEdge ==
    /\ SystemIdle /\ KeywordsIdle /\ SfxIdle /\ TrackerIdle
    /\ edge_text \in EdgeTexts
    /\ max_retries \in 0..MaxRetries
    /\ attempt = 0
    /\ chars_used = 0
    /\ output_file \in {"absent", "nonempty"}
    /\ edge_errors = <<>>
    /\ edge_slept = 0
    /\ edge_result = NoResult
    /\ edge_pc = "call"

NextEdge ==
    \/ Synthesize
    \/ AttemptSucceeds
    \/ AttemptRetried
    \/ AttemptFails
    \/ RetriesExhausted

SpecEdge == InitEdge /\ [][NextEdge]_vars
\* every attempt ends and every sleep is over in the end
SpecEdgeLive == SpecEdge /\ WF_vars(NextEdge)



---------------------------------------------------------------------------
(* Properties of generate() *)

QuizTemplates == {"quiz", "quiz_json"}
PastPool == {"load", "timing", "scene", "mix", "render", "done"}

\* the duration of the narration synthesized for role k (of its own file)
Dur(k) == file_duration[PathOf(k)]
OwnDurations == [k \in Keys |-> Dur(k)]

OutroConstant == CASE template = "quiz" -> OUTRO_DURATION_QUIZ
                   [] template = "quiz_json" -> OUTRO_DURATION_JSON
                   [] template = "tip" -> OUTRO_DURATION_TIP

\* the fixed-order sums of a quiz timeline whose cta slot lasts cta_slot
QuizAdjacent(cta_slot) ==
    /\ timeline.t_hook = 0
    /\ timeline.t_q = timeline.t_hook + Dur("hook")
    /\ timeline.t_a = timeline.t_q + Dur("question")
    /\ timeline.t_b = timeline.t_a + Dur("opt_a")
    /\ timeline.t_c = timeline.t_b + Dur("opt_b")
    /\ timeline.t_d = timeline.t_c + Dur("opt_c")
    /\ timeline.t_think = timeline.t_d + Dur("opt_d")
    /\ timeline.t_think = Dur("hook") + Dur("question") + Dur("opt_a")
                          + Dur("opt_b") + Dur("opt_c") + Dur("opt_d")
    /\ timeline.t_ans = timeline.t_think + THINK_TIME
    /\ timeline.t_cta = timeline.t_ans + Dur("explanation")
    /\ timeline.t_outro = timeline.t_cta + cta_slot

\* C1: whatever the order in which the narration tasks complete and are
\* yielded, the computed timeline is the one obtained by summing, in the
\* fixed role order of the template, the duration of each role's own clip.
C1_ReorderInvariance ==
    timeline_computed =>
        timeline = CASE template = "quiz" -> QuizTiming(OwnDurations)
                     [] template = "quiz_json" -> QuizJsonTiming(OwnDurations)
                     [] template = "tip" -> TipTiming(OwnDurations)

\* C1 witness: a timeline computed after results arrived out of submission
\* order, with clips of different lengths
C1_Witness ==
    /\ timeline_computed
    /\ reordered
    /\ template = "quiz"
    /\ Dur("hook") # Dur("question")
    /\ Dur("opt_d") # Dur("cta")

C3_NoNarrationOverlap ==
    \A i \in 1..(Len(audio_list) - 1) :
        audio_list[i].start + audio_list[i].duration <= audio_list[i+1].start

\* C4 as stated: no narration task is dispatched for the think-pause.
C4_NoThinkTask ==
    \A k \in Keys : status[k] # "new" => k # "think"

\* C4 amended: a think narration ("Think fast!") is dispatched and mixed in
\* at t_think, but its duration never enters the timeline: the answer starts
\* exactly THINK_TIME after the end of option D.
C4_ThinkPauseIsConstant ==
    (timeline_computed /\ template \in QuizTemplates) =>
        /\ status["think"] = "ok"
        /\ timeline.t_think = timeline.t_d + Dur("opt_d")
        /\ timeline.t_ans = timeline.t_d + Dur("opt_d") + THINK_TIME
        /\ audio_list # <<>> =>
               \E i \in 1..Len(audio_list) :
                   audio_list[i] = [key |-> "think",
                                    start |-> timeline.t_think,
                                    duration |-> Dur("think")]

\* C4 witness: a mixed quiz whose think clip is longer than the pause
C4_Witness ==
    /\ timeline_computed
    /\ template = "quiz"
    /\ audio_list # <<>>
    /\ Dur("think") > THINK_TIME

\* C5: in every template the total duration is the outro start plus the
\* template's outro constant.
C5_TotalIsOutroPlusConstant ==
    timeline_computed => timeline.total_dur = timeline.t_outro + OutroConstant

\* C5 witness: a tip timeline with a non-empty cta narration
C5_Witness ==
    /\ timeline_computed
    /\ template = "tip"
    /\ Dur("cta") > 0
    /\ timeline.total_dur = timeline.t_cta + Dur("cta") + OUTRO_DURATION_TIP

\* C6: generate() is past the with-block (loading clips, computing offsets
\* or later) only when every dispatched task has completed; so no offset is
\* computed while a task is pending or running.
C6_TimingAfterAllTasks ==
    (timeline_computed \/ pc \in PastPool) =>
        \A k \in Keys : status[k] \in {"ok", "err"}

\* C6 witness: offsets computed, every task having completed
C6_Witness ==
    /\ pc = "scene"
    /\ timeline_computed
    /\ timeline.total_dur > 0
    /\ \A k \in Keys : status[k] = "ok"

SomeTaskFailed == \E k \in Keys : status[k] = "err"

\* C7: once a narration task has failed, generate() never gets past the
\* pool, computes no timeline and writes no output; and it has failed only
\* when every dispatched task has run to completion (none is cancelled).
C7_FailureSurfacesAfterDrain ==
    SomeTaskFailed =>
        /\ pc \notin PastPool
        /\ ~timeline_computed
        /\ outputs = {}
        /\ pc = "failed" =>
               /\ exc
               /\ \A k \in Keys : status[k] \in {"ok", "err"}

\* C7 witness: generate() has failed on the first yielded result; the
\* other tasks, never collected, all ran to completion
C7_Witness ==
    /\ pc = "failed"
    /\ SomeTaskFailed
    /\ Cardinality(yielded) = 1
    /\ Cardinality({k \in Keys : status[k] = "ok"}) = Cardinality(Keys) - 1

C9_TempFilesDeleted ==
    (delete_temp_files /\ pc \in {"done", "failed"}) => files = {}


---------------------------------------------------------------------------
(* Properties of find_best_timestamp *)

\* two characters are the same letter, whatever their case
SameLetter(c, d) ==
    \/ c = d
    \/ \E u \in UpperChars : {c, d} = {u, LowerChar(u)}

\* the keyword occurs in the text, case-insensitively
OccursIn(word, text) ==
    \E off \in 0..(Len(text) - Len(word)) :
        \A j \in 1..Len(word) : SameLetter(word[j], text[off + j])

\* segment i starts at or after not_before and mentions the keyword
Matches(i) ==
    /\ segments[i].start >= last_end_time
    /\ OccursIn(keyword.text, segments[i].text)

---------------------------------------------------------------------------
(* Properties of the VideoProcessor (SpecPrep, SpecPrepLive) *)

\* C11: get_transcript_map returns the content of an existing cache file
\* without loading or running the model; without a cache file it
\* transcribes exactly once, writes the result to the cache file and returns
\* that same result
C11_TranscriptCache ==
    prep_pc = "loop" =>
        IF gtm.at_entry
        THEN /\ transcript = JsonLoad(gtm.cached)
             /\ gtm.loads = 0
             /\ gtm.runs = 0
        ELSE /\ gtm.runs = 1
             /\ temp_dir[CachePath(video_path)].exists
             /\ JsonLoad(temp_dir[CachePath(video_path)]) = transcript

\* a call found the artifact a failed call had left, and returned its
\* non-empty content
C11_Witness ==
    /\ prep_pc = "loop"
    /\ gtm.at_entry
    /\ transcript # <<>>
    /\ stt_runs[video_path] = 1

RECURSIVE SumLens(_)
SumLens(clips) ==
    IF clips = <<>> THEN 0 ELSE Head(clips).len + SumLens(Tail(clips))

\* C14: prepare_video_for_short leaves its clip loop for every positive
\* target duration; the cumulative length never exceeds the target, and on
\* return the segment lengths sum exactly to total_duration
C14_TerminatesWithExactSum ==
    /\ [](/\ current_generated_duration = SumLens(final_clips)
          /\ current_generated_duration <= total_duration
          /\ (prep_pc = "returned" => SumLens(final_clips) = total_duration))
    /\ (prep_pc = "loop" ~> prep_pc \in {"returned", "failed"})

\* a call returned several clips, the last one trimmed below 1.5 s
C14_Witness ==
    /\ prep_pc = "returned"
    /\ Len(final_clips) >= 2
    /\ final_clips[Len(final_clips)].len < MIN_CLIP_LEN

\* C20 as claimed: on every exit of prepare_video_for_short, also by an
\* exception, the model is None and the cache file is deleted
C20_ReleasedOnEveryExit ==
    prep_pc \in {"returned", "failed"} =>
        /\ model = "None"
        /\ ~temp_dir[CachePath(video_path)].exists

---------------------------------------------------------------------------
(* Properties of add_background_music (SpecMusic) *)

\* C15: add_background_music never raises; it takes its track from the mood
\* subdirectory, else from the shared directory, else the legacy track, and
\* returns the voice-only mix unchanged when there is none or the chosen
\* track fails to load
C15_MusicNeverRaises ==
    /\ music_pc # "raised"
    /\ music_pc = "returned" =>
        LET mood == MusicMood(get_theme(theme_name))
            inMood == {t \in music_files : t.dir = mood}
            inShared == {t \in music_files : t.dir = "shared"}
        IN  /\ inMood # {} => chosen \in inMood
            /\ inMood = {} /\ inShared # {} => chosen \in inShared
            /\ inMood = {} /\ inShared = {} /\ Legacy \in music_files
                   => chosen = Legacy
            /\ inMood = {} /\ inShared = {} /\ Legacy \notin music_files
                   => chosen = NoTrack /\ final_audio = VoiceOnly
            /\ chosen \in unreadable => final_audio = VoiceOnly
            /\ chosen # NoTrack /\ chosen \notin unreadable
                   => final_audio.kind = "mix" /\ final_audio.track = chosen

\* the search came down to the legacy track, which failed to load
C15_Witness ==
    /\ music_pc = "returned"
    /\ chosen = Legacy
    /\ chosen \in unreadable
    /\ final_audio = VoiceOnly

\* C16 as claimed: the audio returned by the mix spans exactly
\* total_duration in every case
C16_MixSpansTotal ==
    music_pc = "returned" => final_audio.duration = mix_duration

\* C17 as claimed: the music is chosen from the mood subdirectory of the
\* theme of the generation config whenever that subdirectory holds a track
C17_MusicFollowsTheme ==
    (/\ music_pc = "returned"
     /\ MoodTracks(music_files, MusicMood(get_theme(theme))) # {})
        => chosen \in MoodTracks(music_files, MusicMood(get_theme(theme)))

---------------------------------------------------------------------------
(* Properties of the batch driver (SpecBatchLive) *)

\* the eligible rows main() reaches before processed hits the limit
WithinLimit(r) ==
    /\ rows[r]
    /\ Cardinality({q \in 1..(r - 1) : rows[q]}) < MAX_ROWS_TO_PROCESS

\* C18: a failing row never ends the batch: its failure status is written to
\* the row and the loop goes on, so every eligible row within the limit
\* eventually has a status written
C18_BatchSurvivesRowFailures ==
    /\ [](batch_pc # "crashed")
    /\ [](\A r \in DataRows :
             (r < row_i /\ WithinLimit(r)) => sheet_status[r] # Pending)
    /\ [][(batch_pc = "write" /\ row_stage # "success")
             => sheet_status'[row_i] = StatusFailure(row_stage)]_vars
    /\ \A r \in DataRows :
           (batch_pc = "loop" /\ WithinLimit(r)) ~> sheet_status[r] # Pending

\* a row failed, its failure was written, and a later row got its status
C18_Witness ==
    \E r1 \in DataRows, r2 \in DataRows :
        /\ r1 < r2
        /\ sheet_status[r1].kind = "failed"
        /\ sheet_status[r2].kind \in {"failed", "success"}

---------------------------------------------------------------------------
(* Properties of GeminiManager (SpecGemini) *)

\* C19 as claimed: a get_script call that met quota errors only fails
\* fatally only when every key has been exhausted
C19_FatalOnlyWhenExhausted ==
    (gemini_pc = "failed" /\ other_errors = 0) => ~CanConfigure(idx)

\* C21: every keyword extract_keywords_ordered returns is unique, is not a
\* stop word and has more than 4 characters, and the keywords keep the order
\* of their first occurrence in the script text.  The length test is made
\* on the word before its punctuation is stripped, so "mass." yields the
\* four-character keyword "mass" and "....." yields the empty keyword.
FirstIndex(seq, x) == CHOOSE i \in 1..Len(seq) :
    seq[i] = x /\ \A j \in 1..(i - 1) : seq[j] # x
StrippedWords(scr) ==
    LET words == SplitWords(scr) IN [i \in 1..Len(words) |-> Strip(words[i])]
C21_KeywordsLongUniqueOrdered ==
    keywords_pc = "returned" =>
        /\ \A i \in 1..Len(ordered) :
            /\ \A j \in 1..Len(ordered) : ordered[i] = ordered[j] => i = j
            /\ ordered[i] \notin stop_words
            /\ Len(ordered[i]) > 4
            /\ ordered[i] \in Range(StrippedWords(script))
        /\ \A i \in 1..Len(ordered), j \in 1..Len(ordered) :
               i < j => FirstIndex(StrippedWords(script), ordered[i])
                            < FirstIndex(StrippedWords(script), ordered[j])

\* C22: every segment prepare_video_for_short emits is at most 2.5 s long,
\* every segment but the last is at least 1.5 s long, and a shorter last
\* segment is exactly the duration that was still needed.
RECURSIVE SumLensUpTo(_, _)
SumLensUpTo(clips, n) ==
    IF n = 0 THEN 0 ELSE clips[n].len + SumLensUpTo(clips, n - 1)
C22_SegmentLengths ==
    \A i \in 1..Len(final_clips) :
        /\ final_clips[i].len <= 25
        /\ final_clips[i].len > 0
        /\ i < Len(final_clips) => final_clips[i].len >= 15
        /\ final_clips[i].len < 15 =>
               /\ i = Len(final_clips)
               /\ final_clips[i].len =
                      total_duration - SumLensUpTo(final_clips, i - 1)

\* C22 witness: a call has returned three segments, the last one clamped
\* to the 1.0 s that were still needed
C22_Witness ==
    /\ prep_pc = "returned"
    /\ Len(final_clips) = 3
    /\ final_clips[1].len = 15
    /\ final_clips[3].len = 10

\* C23: even segments zoom in from 1.00 to 1.05, odd segments zoom out
\* from 1.05 to 1.00, and the scale at the end of each segment equals the
\* scale at the start of the next one, whatever the segments' lengths.
SameScale(p, q) == p.num * q.den = q.num * p.den
ScaleAtStart(c) == Scale(c.zoom, 0)
ScaleAtEnd(c) == Scale(c.zoom, c.len)
C23_ZoomContinuous ==
    /\ \A i \in 1..Len(final_clips) :
        LET c == final_clips[i]
        IN  IF (i - 1) % 2 = 0
            THEN /\ SameScale(ScaleAtStart(c), [num |-> 100, den |-> 100])
                 /\ SameScale(ScaleAtEnd(c), [num |-> 105, den |-> 100])
            ELSE /\ SameScale(ScaleAtStart(c), [num |-> 105, den |-> 100])
                 /\ SameScale(ScaleAtEnd(c), [num |-> 100, den |-> 100])
    /\ \A i \in 1..(Len(final_clips) - 1) :
        SameScale(ScaleAtEnd(final_clips[i]), ScaleAtStart(final_clips[i + 1]))

\* C23 witness: three segments of three different lengths, zooming in, out
\* and in again
C23_Witness ==
    /\ Len(final_clips) = 3
    /\ final_clips[1].len = 20
    /\ final_clips[2].len = 15
    /\ final_clips[3].len = 5
    /\ final_clips[1].zoom.zoom_in
    /\ ~final_clips[2].zoom.zoom_in
    /\ final_clips[3].zoom.zoom_in

\* C27: every extracted segment lies inside the safety-trimmed source, also
\* after the rewind fallback: start >= 0 and start + length <= safe_duration.
\* A source shorter than 3.5 s refutes it: the rewind start 1.0 s plus a
\* 2.5 s segment ends after the 3.0 s source.
C27_SegmentsInsideSafeSource ==
    \A i \in 1..Len(final_clips) :
        /\ final_clips[i].start >= 0
        /\ final_clips[i].start + final_clips[i].len <= safe_duration

\* the cues of one name in the returned layer, and their starts
CuesNamed(name) == SelectSeq(sfx_layer, LAMBDA c : c.name = name)
StartsOf(name) == {sfx_layer[i].start : i \in {j \in 1..Len(sfx_layer) :
                                                  sfx_layer[j].name = name}}
\* get_clip has a clip for the name: an entry whose file exists and loads
Loadable(name) ==
    /\ name \in AssetNames
    /\ sfx_files[name] \in {"ok", "wav_only"}
\* the timeline the calling template computed, and its narration layer
TemplateTimeline ==
    IF caller = "quiz" THEN QuizTiming(narration)
    ELSE QuizJsonTiming(narration)
NarrationStart(key) ==
    LET layer == QuizAudioList(narration, TemplateTimeline)
    IN  layer[CHOOSE i \in 1..Len(layer) : layer[i].key = key].start
ByGenerateQuizSfx ==
    sfx_pc = "returned" /\ caller \in {"quiz", "quiz_json", "harness"}

\* C24: generate_quiz_sfx places every cue at an offset taken unchanged from
\* the timings passed to it (whoosh at q - 0.2 s, a pop at each of a, b, c,
\* d, the chime at ans, the transition cue at cta, the closing cue at
\* outro), and the timings the templates pass are the starts of their
\* narration and visual layers.
C24_CuesFollowTimeline ==
    ByGenerateQuizSfx =>
        /\ Loadable("whoosh") =>
               StartsOf("whoosh") = {10 * timings["q"].t - 20}
        /\ Loadable("pop") =>
               StartsOf("pop") = {10 * timings[k].t : k \in {"a", "b", "c", "d"}}
        /\ Loadable("success") =>
               StartsOf("success") = {10 * timings["ans"].t}
        /\ (Loadable("flip") /\ timings["cta"].present) =>
               StartsOf("flip") = {10 * timings["cta"].t}
        /\ (Loadable("swish_low") /\ timings["outro"].present) =>
               StartsOf("swish_low") = {10 * timings["outro"].t}
        /\ caller \in {"quiz", "quiz_json"} =>
            /\ timings["q"] = At(NarrationStart("question"))
            /\ timings["a"] = At(NarrationStart("opt_a"))
            /\ timings["b"] = At(NarrationStart("opt_b"))
            /\ timings["c"] = At(NarrationStart("opt_c"))
            /\ timings["d"] = At(NarrationStart("opt_d"))
            /\ timings["think"] = At(NarrationStart("think"))
            /\ timings["ans"] = At(NarrationStart("explanation"))
            /\ timings["cta"] = At(NarrationStart("cta"))
            /\ timings["outro"] = At(TemplateTimeline.t_outro)

\* C24 witness: the quiz template got all twenty cues, the chime on the
\* start of the explanation narration
C24_Witness ==
    /\ sfx_pc = "returned"
    /\ caller = "quiz"
    /\ Len(sfx_layer) = 20
    /\ StartsOf("success") = {10 * NarrationStart("explanation")}
    /\ StartsOf("whoosh") = {10 * NarrationStart("question") - 20}

\* C25: every tick starts in [think start, answer start), the ticks are
\* equally spaced, and their span is the think pause of the timeline that
\* was passed.  The ticks are twelve cues hard-wired 0.25 s apart, 3.0 s in
\* all: the pause build_audio_timeline passes is longer.
TicksPlayed == ByGenerateQuizSfx /\ Loadable("tick")
TickSpan == Len(CuesNamed("tick")) * 25
C25_TicksSpanTimelinePause ==
    TicksPlayed =>
        /\ \A i \in 1..Len(CuesNamed("tick")) :
            /\ CuesNamed("tick")[i].start >= 10 * timings["think"].t
            /\ CuesNamed("tick")[i].start < 10 * timings["ans"].t
        /\ \A i \in 1..(Len(CuesNamed("tick")) - 1) :
               CuesNamed("tick")[i + 1].start - CuesNamed("tick")[i].start = 25
        /\ TickSpan = 10 * (timings["ans"].t - timings["think"].t)

\* C26: a missing sound effect is never fatal.  get_clip and
\* generate_quiz_sfx raise nothing; a cue is omitted when its name has no
\* entry in the asset table, when its file does not exist (for 'pop':
\* neither pop_soft.mp3 nor pop_soft.wav), when its file fails to load, or
\* when its role is absent from the timings; every other cue is returned.
CuesExpected(name) ==
    CASE name = "pop" -> 4 [] name = "tick" -> 12 [] OTHER -> 1
RoleAbsent(name) == \A k \in KeysOf(name) : ~timings[k].present
Omitted(name) ==
    \/ name \notin AssetNames
    \/ sfx_files[name] = "missing"
    \/ sfx_files[name] = "unreadable"
C26_MissingCueNotFatal ==
    /\ sfx_pc # "raised"
    /\ ByGenerateQuizSfx =>
           \A n \in QuizCueNames :
               Len(CuesNamed(n)) =
                   IF Omitted(n) \/ RoleAbsent(n) THEN 0 ELSE CuesExpected(n)
    /\ (sfx_pc = "returned" /\ caller = "get_clip") =>
           Len(sfx_layer) = IF Omitted(sfx_name) THEN 0 ELSE 1

\* C26 witness: the harness passed no cta and no outro, the pop file is
\* missing and the tick file does not load: whoosh and chime are returned
C26_Witness ==
    /\ sfx_pc = "returned"
    /\ caller = "harness"
    /\ sfx_files["pop"] = "missing"
    /\ sfx_files["tick"] = "unreadable"
    /\ Len(sfx_layer) = 2
    /\ sfx_layer[1].name = "whoosh"
    /\ sfx_layer[2].name = "success"

\* C28: for the same narration durations, the timestamps build_audio_timeline
\* computes for q, a, b, c, d, think and ans equal the template's t_q, t_a,
\* t_b, t_c, t_d, t_think and t_ans.  The harness adds the duration of the
\* "Think fast!" narration to the 3.0 s wait, the template does not.
C28_HarnessReconstructsTimeline ==
    (caller = "harness" /\ sfx_pc \in {"call", "returned"}) =>
        \A k \in {"q", "a", "b", "c", "d", "think", "ans"} :
            timings[k] = SfxTimings(QuizTiming(narration))[k]

\* C29: under any sequence of register_account, log_usage and
\* find_available_account calls on a new tracker, every account has
\* available = quota_limit - used_chars, used_chars is the sum of the
\* characters logged for it with provider 'google', a log with another
\* provider leaves the quota state as it is, and find_available_account
\* returns the first listed account whose available >= required_chars, or
\* None without one.
RECURSIVE GoogleChars(_, _)
GoogleChars(history, account) ==
    IF history = <<>> THEN 0
    ELSE (IF Head(history).account = account
             /\ Head(history).provider = "google"
          THEN Head(history).chars ELSE 0)
         + GoogleChars(Tail(history), account)
Sufficient(account, required) ==
    /\ quota_state[account].registered
    /\ quota_state[account].available >= required
FirstSufficient(names, required) ==
    IF \E i \in 1..Len(names) : Sufficient(names[i], required)
    THEN names[CHOOSE i \in 1..Len(names) :
                   /\ Sufficient(names[i], required)
                   /\ \A j \in 1..(i - 1) : ~Sufficient(names[j], required)]
    ELSE "None"
QuotaAccounts ==
    \A a \in Accounts :
        /\ quota_state[a].available
               = quota_state[a].quota_limit - quota_state[a].used_chars
        /\ quota_state[a].used_chars = GoogleChars(usage_history, a)
FindResult ==
    last_call.op = "find" =>
        last_call.result = FirstSufficient(last_call.account_names,
                                           last_call.required_chars)
OtherProviderLogged ==
    /\ Len(usage_history') = Len(usage_history) + 1
    /\ usage_history'[Len(usage_history')].provider # "google"
MayRetry(msg) ==
    \E i \in 1..Len(msg) :
        msg[i] \in {"429", "Connection", "Handshake", "NoAudioReceived",
                    "received"}
AttemptsMade ==
    Len(edge_errors) + (IF edge_result.success THEN 1 ELSE 0)
SynthesizeSafe ==
    /\ edge_pc # "raised"
    /\ AttemptsMade <= max_retries
    /\ \A i \in 1..(Len(edge_errors) - 1) : MayRetry(edge_errors[i])
    /\ edge_pc = "try" => \A i \in 1..Len(edge_errors) : MayRetry(edge_errors[i])
    /\ edge_pc = "returned" =>
        /\ edge_result.chars_used = chars_used
        /\ edge_result.kind \in {"None", "error", "exhausted"}
        /\ edge_result.success = (edge_result.kind = "None")
        /\ edge_result.kind = "None" =>
            /\ output_file = "nonempty"
            /\ \A i \in 1..Len(edge_errors) : MayRetry(edge_errors[i])
        /\ edge_result.kind = "error" =>
            /\ edge_errors # <<>>
            /\ ~MayRetry(edge_errors[Len(edge_errors)])
            /\ edge_result.error_msg = edge_errors[Len(edge_errors)]
        /\ edge_result.kind = "exhausted" =>
            /\ Len(edge_errors) = max_retries
            /\ \A i \in 1..Len(edge_errors) : MayRetry(edge_errors[i])
C30_SynthesizeTerminates ==
    /\ <>(edge_pc = "returned")
    /\ []SynthesizeSafe

\* C30 witness: two retryable errors, then an attempt that left a non-empty
\* file, and success is returned
C30_Witness ==
    /\ edge_pc = "returned"
    /\ edge_result.success
    /\ Len(edge_errors) = 2
    /\ max_retries = 3
    /\ output_file = "nonempty"

====
